---- MODULE Spec2Model ----
(***************************************************************************)
(* The spawn/await task system of Lux: the task executor                   *)
(* (src/src/async_runtime/executor.rs) and the evaluator's spawn and await *)
(* expressions (src/src/runtime/interpreter.rs).                           *)
(*                                                                         *)
(* Spec      the evaluators (the main one and the threads of a join) run   *)
(*           arbitrary task bodies; every executor operation is one        *)
(*           critical section of the registry lock and is one step.        *)
(* SpecProg  the same evaluators run fixed programs, with variables.       *)
(* SpecExec  the executor operations at the granularity of their lock      *)
(*           acquisitions, called concurrently by several threads.         *)
(* SpecLocks every method of the executor, clear and all_tasks_complete    *)
(*           included, lock by lock, with callers that wait for a lock;    *)
(*           FairLocks is SpecLocks under a fair scheduler.                *)
(* An evaluator never holds a lock of the executor between two executor    *)
(* calls, and spawn_function holds the id lock until its task is pushed,   *)
(* which is what lets Spec and SpecProg take each call as one step.        *)
(*                                                                         *)
(* SpecLex   the lexer (src/src/lexer/scanner.rs) scans a source text,     *)
(*           one token per step.                                           *)
(* SpecRun   run (src/src/lib.rs) on a parsed program: the table           *)
(*           constructors of the parser, the type checker                  *)
(*           (src/src/types/checker.rs), then the evaluator's statements   *)
(*           and expressions, without tasks.                               *)
(***************************************************************************)
EXTENDS Integers, Sequences, FiniteSets, TLC

\* ---------------------------------------------------------------- bounds
MaxTasks == 2
MaxThreads == 3
MaxDepth == 2
MaxArr == 1
MaxBody == 1
MaxFreeThreads == 2
MaxCallers == 2
MaxSpawns == 2

\* ---------------------------------------------------------------- values
IntV(n) == [tag |-> "Int", v |-> n]
NilV == [tag |-> "Nil", v |-> 0]
StrV == [tag |-> "String", v |-> 0]
TableV == [tag |-> "Table", v |-> 0]

\* TableValue::new
EmptyScope == [n \in {} |-> NilV]
EmptyTable == [array |-> <<>>, fields |-> EmptyScope]
Tbl(a, f) == [array |-> a, fields |-> f]
Field(k, v) == [n \in {k} |-> v]

Keys == {"k"}

\* user functions of a program: name |-> parameter names
Funcs == {"f", "g"}
Params(fn) == IF fn = "f" THEN <<>> ELSE <<"p">>

\* ---------------------------------------------------------------- messages
\* A message is a sequence of codes; formatting concatenates.
MsgDivZero == <<100>>
BaseMsgs == {MsgDivZero}
MsgNotFound(tid) == <<110, tid>>
MsgNotInt == <<111>>
MsgInvalidState(tid) == <<112, tid>>
MsgPanicked == <<113>>
MsgDidNotComplete(tid) == <<114, tid>>
MsgUndefined == <<115>>
\* format!("Task {} failed: {}", tid, msg)
MsgFailed(tid, msg) == <<120, tid>> \o msg
\* LuxError::fmt for a RuntimeError: "{kind}: {message} at {location}"
Display(m) == <<200>> \o m \o <<201>>

Carries(m, s) ==
    \E i \in 0..(Len(s) - Len(m)) : SubSeq(s, i + 1, i + Len(m)) = m

\* ---------------------------------------------------------------- state
VARIABLES
    tasks,          \* AsyncExecutor.tasks: Vec<Task>
    ready_queue,    \* AsyncExecutor.ready_queue
    next_task_id,   \* AsyncExecutor.next_task_id
    evals,          \* the evaluators: 0 is the main one, the others are join threads
    stores,         \* the variable stores (Environment), by store id
    writes,         \* history: number of update_task_state calls that hit each task
    rets,           \* history: the values stored as Completed(v) in each task
    awaited,        \* history: task ids that an await has looked up
    prog,           \* the program that runs (free: any statement may come next)
    xpc,            \* SpecExec: position of each caller inside its executor operation
    xlocal,         \* SpecExec: locals of each caller (task_id read from the counter)
    locks,          \* SpecExec: holder of each of the three mutexes (0 = free)
    source,         \* SpecLex, SpecRun: the input of run (characters, or a program)
    phase,          \* SpecLex, SpecRun: the phase of run that comes next
    lexer,          \* SpecLex: the Lexer (source, tokens, start, current, line, column)
    ast,            \* SpecRun: the Ast the parser returned
    checker,        \* SpecRun: what TypeChecker::check returned
    interp          \* SpecRun: the Interpreter (env, control_flow, loaded_modules)

runVars == <<source, phase, lexer, ast, checker, interp>>
vars == <<tasks, ready_queue, next_task_id, evals, stores, writes, rets, awaited, prog,
          xpc, xlocal, locks, runVars>>
joinVars == <<evals, stores, writes, rets, awaited, prog, runVars>>
execVars == <<xpc, xlocal, locks, runVars>>
\* the task system runs no source text of its own
NoRun ==
    /\ source = <<>> /\ phase = "none" /\ lexer = <<>>
    /\ ast = <<>> /\ checker = <<>> /\ interp = <<>>

Main == 0
Evals == 0..MaxThreads
Threads == 1..MaxThreads
NoTask == 0 - 1

\* TaskState
Pending == [tag |-> "Pending", val |-> NilV, msg |-> <<>>]
Running == [tag |-> "Running", val |-> NilV, msg |-> <<>>]
Completed(v) == [tag |-> "Completed", val |-> v, msg |-> <<>>]
Failed(m) == [tag |-> "Failed", val |-> NilV, msg |-> m]
Terminal(s) == s.tag \in {"Completed", "Failed"}

\* Task::new_with_function
NewTaskWrongState(id, fn, args) ==
    [id |-> id, state |-> Running, function |-> fn, arguments |-> args]
new_with_function(id, fn, args) ==
    [id |-> id, state |-> Pending, function |-> fn, arguments |-> args]

\* ---------------------------------------------------------------- Environment
push_scope(env) == Append(env, EmptyScope)
KeepScope(env) == env
pop_scope(env) == IF Len(env) > 1 THEN SubSeq(env, 1, Len(env) - 1) ELSE env
Put(scope, name, value) ==
    [n \in DOMAIN scope \cup {name} |-> IF n = name THEN value ELSE scope[n]]
define(env, name, value) == [env EXCEPT ![Len(env)] = Put(@, name, value)]
\* Environment::set: the innermost scope that binds the name, 0 if none
SetIdx(env, name) ==
    LET S == {i \in 1..Len(env) : name \in DOMAIN env[i]}
    IN IF S = {} THEN 0 ELSE CHOOSE i \in S : \A j \in S : j <= i
env_set(env, name, value) ==
    IF SetIdx(env, name) = 0 THEN env
    ELSE [env EXCEPT ![SetIdx(env, name)] = Put(@, name, value)]

Min(a, b) == IF a < b THEN a ELSE b

\* the parameter binding of execute_task: params.iter().zip(args.iter())
RECURSIVE BindParams(_, _, _, _)
BindParams(env, params, args, i) ==
    IF i > Min(Len(params), Len(args)) THEN env
    ELSE BindParams(define(env, params[i], args[i]), params, args, i + 1)

\* Environment::clone for a join thread: the copy lives in the store `fresh`
EnvCloneShared(sid, fresh) == sid
EnvClone(sid, fresh) == fresh

\* ---------------------------------------------------------------- executor
\* AsyncExecutor::get_task: index of the first task with that id, 0 for None
get_task(tid) ==
    LET S == {i \in 1..Len(tasks) : tasks[i].id = tid}
    IN IF S = {} THEN 0 ELSE CHOOSE i \in S : \A j \in S : i <= j

\* AsyncExecutor::update_task_state
update_task_state(tid, st) ==
    IF get_task(tid) = 0 THEN tasks
    ELSE [tasks EXCEPT ![get_task(tid)].state = st]

Bump(tid) ==
    IF get_task(tid) = 0 THEN writes
    ELSE [writes EXCEPT ![tid] = Min(@ + 1, 2)]

\* ---------------------------------------------------------------- statements
\* The statements and expressions of a program that matter to the task system.
Stmt(k) == [k |-> k, name |-> "x", val |-> NilV, fn |-> "f", args |-> <<>>,
            id |-> 0, tbl |-> EmptyTable, msg |-> <<>>]
SDefine(n, v) == [Stmt("define") EXCEPT !.name = n, !.val = v]       \* local n = v
SAssign(n, v) == [Stmt("assign") EXCEPT !.name = n, !.val = v]       \* n = v
SSpawn(fn, args) == [Stmt("spawn") EXCEPT !.fn = fn, !.args = args]  \* spawn fn(args)
SAwait(id) == [Stmt("await") EXCEPT !.id = id]                       \* await id
SAwaitTable(t) == [Stmt("await_table") EXCEPT !.tbl = t]             \* await {..}
SReturn(v) == [Stmt("return") EXCEPT !.val = v]                      \* return v
SReturnVar(n) == [Stmt("return_var") EXCEPT !.name = n]              \* return n
SReturnDiv(n) == [Stmt("return_div") EXCEPT !.name = n]              \* return 7 / n
SFail(m) == [Stmt("fail") EXCEPT !.msg = m]                          \* e.g. 1 / 0
SPanic == Stmt("panic")                                              \* e.g. 1 % 0

\* ---------------------------------------------------------------- frames
NoOut == [kind |-> "none", val |-> NilV, msg |-> <<>>]
OkOut(v) == [kind |-> "ok", val |-> v, msg |-> <<>>]
ErrOut(m) == [kind |-> "err", val |-> NilV, msg |-> m]

\* one activation: the top-level program (task = NoTask) or execute_task(task)
NewFrame(tid) ==
    [task |-> tid, pc |-> "run", out |-> NoOut, op |-> "none", arg |-> NoTask, n |-> 0,
     tbl |-> EmptyTable, i |-> 1, todo |-> {},
     task_ids_array |-> <<>>, task_ids_fields |-> EmptyScope,
     handles |-> <<>>, result_table |-> EmptyTable,
     \* history of an await over a table: the named tasks that were terminal when
     \* it started, the failures stored when its threads had been joined, and the
     \* variable store of the evaluator when it started
     done_at_start |-> {}, failed_at_join |-> {}, env_at_start |-> <<>>]

FreeEval == [status |-> "free", detached |-> FALSE, env |-> 0, stack |-> <<>>,
             result |-> NoOut]

Top(e) == evals[e].stack[Len(evals[e].stack)]
Depth(e) == Len(evals[e].stack)
Live(e) == evals[e].status = "running"
\* the evaluator is between two statements of the activation on top of its stack
CanRun(e) == Live(e) /\ Depth(e) > 0 /\ Top(e).pc = "run" /\ Top(e).out.kind # "err"
\* the frame when its next statement starts
Step(f) == [f EXCEPT !.n = IF prog.free /\ f.task = NoTask THEN 0 ELSE f.n + 1,
                     !.out = NoOut, !.op = "none", !.arg = NoTask]
SetTop(e, f) == [evals EXCEPT ![e].stack[Depth(e)] = f]
Env(e) == stores[evals[e].env]

\* a program whose statements are not fixed
FreeProg == [free |-> TRUE, threads |-> MaxFreeThreads, main |-> <<>>,
             body |-> [fn \in Funcs |-> <<>>]]

InitWith(p) ==
    /\ tasks = <<>>
    /\ ready_queue = <<>>
    /\ next_task_id = 0
    /\ evals = [e \in Evals |->
                  IF e = Main
                  THEN [FreeEval EXCEPT !.status = "running", !.stack = <<NewFrame(NoTask)>>]
                  ELSE FreeEval]
    /\ stores = [e \in Evals |-> <<EmptyScope>>]
    /\ writes = [t \in 0..(MaxTasks - 1) |-> 0]
    /\ rets = [t \in 0..(MaxTasks - 1) |-> {}]
    /\ awaited = {}
    /\ prog = p
    /\ xpc = <<>>
    /\ xlocal = <<>>
    /\ locks = <<>>
    /\ NoRun

Init == InitWith(FreeProg)

\* Environment::get
env_get(env, name) ==
    IF SetIdx(env, name) = 0 THEN NilV ELSE env[SetIdx(env, name)][name]

\* the error of a statement that fails by itself, <<>> if it does not:
\* Expr::Assign and Expr::Variable on an unbound name, or a failing operation
StmtError(e, st) ==
    IF st.k = "fail" THEN st.msg
    ELSE IF st.k \in {"assign", "return_var", "return_div"} /\ SetIdx(Env(e), st.name) = 0
    THEN MsgUndefined
    ELSE IF st.k = "return_div" /\ env_get(Env(e), st.name) = IntV(0)
    THEN MsgDivZero
    ELSE <<>>

\* Stmt::VarDecl: `local name = value`
Define(e, st) ==
    /\ CanRun(e) /\ st.k = "define"
    /\ stores' = [stores EXCEPT ![evals[e].env] = define(@, st.name, st.val)]
    /\ evals' = SetTop(e, Step(Top(e)))
    /\ UNCHANGED <<tasks, ready_queue, next_task_id, writes, rets, awaited, prog, execVars>>

\* Expr::Assign: `name = value` on a bound name
Assign(e, st) ==
    /\ CanRun(e) /\ st.k = "assign"
    /\ StmtError(e, st) = <<>>
    /\ stores' = [stores EXCEPT ![evals[e].env] = env_set(@, st.name, st.val)]
    /\ evals' = SetTop(e, Step(Top(e)))
    /\ UNCHANGED <<tasks, ready_queue, next_task_id, writes, rets, awaited, prog, execVars>>

\* AsyncExecutor::spawn_function, as one critical section
spawn_function(fn, args) ==
    /\ tasks' = Append(tasks, new_with_function(next_task_id, fn, args))
    /\ next_task_id' = next_task_id + 1
    /\ ready_queue' = ready_queue

\* Expr::Spawn: `spawn fn(args)`
Spawn(e, st) ==
    /\ CanRun(e) /\ st.k = "spawn"
    /\ Len(tasks) < MaxTasks
    /\ spawn_function(st.fn, st.args)
    /\ evals' = SetTop(e, [Step(Top(e)) EXCEPT !.out = OkOut(IntV(next_task_id)),
                                               !.op = "spawn", !.arg = next_task_id])
    /\ UNCHANGED <<stores, writes, rets, awaited, prog, execVars>>

\* ---------------------------------------------------------------- execute_task
\* the frame of execute_task(tid, func, args) with its scope pushed and its
\* parameters bound (interpreter.rs 806-812)
TaskEnv(env, idx) ==
    BindParams(push_scope(env), Params(tasks[idx].function), tasks[idx].arguments, 1)

\* Expr::Await on Value::Int (interpreter.rs 1230-1262)
AwaitInt(e, st) ==
    /\ CanRun(e) /\ st.k = "await"
    /\ awaited' = awaited \cup {st.id}
    /\ LET tid == st.id
           idx == get_task(tid)
           f == [Step(Top(e)) EXCEPT !.op = "await_int", !.arg = tid]
       IN IF idx = 0
          THEN /\ evals' = SetTop(e, [f EXCEPT !.out = ErrOut(MsgNotFound(tid))])
               /\ UNCHANGED stores
          ELSE IF tasks[idx].state.tag = "Completed"
          THEN /\ evals' = SetTop(e, [f EXCEPT !.out = OkOut(tasks[idx].state.val)])
               /\ UNCHANGED stores
          ELSE IF tasks[idx].state.tag = "Failed"
          THEN /\ evals' = SetTop(e, [f EXCEPT !.out =
                                 ErrOut(MsgFailed(tid, tasks[idx].state.msg))])
               /\ UNCHANGED stores
          ELSE IF tasks[idx].state.tag = "Pending"
          THEN /\ Depth(e) < MaxDepth
               /\ evals' = [evals EXCEPT ![e].stack =
                     Append([@ EXCEPT ![Depth(e)] = [f EXCEPT !.pc = "await_int"]],
                            NewFrame(tid))]
               /\ stores' = [stores EXCEPT ![evals[e].env] = TaskEnv(@, idx)]
          ELSE /\ evals' = SetTop(e, [f EXCEPT !.out = ErrOut(MsgInvalidState(tid))])
               /\ UNCHANGED stores
    /\ UNCHANGED <<tasks, ready_queue, next_task_id, writes, rets, prog, execVars>>

\* the closure of a join thread returns (interpreter.rs 1285-1294): the thread
\* has ended; a detached thread is reclaimed at once
ThreadEnds(e, status, out) ==
    /\ evals' = [evals EXCEPT ![e] =
           IF evals[e].detached THEN FreeEval
           ELSE [FreeEval EXCEPT !.status = status, !.result = out]]
    /\ stores' = [stores EXCEPT ![e] = <<EmptyScope>>]

\* execute_task returns to its caller: the await that runs it inline (then the
\* return is a step of its own, Exit) or the closure of a join thread
Leave(e, out) ==
    IF Depth(e) > 1
    THEN /\ evals' = SetTop(e, [Top(e) EXCEPT !.pc = "exit", !.out = out])
         /\ UNCHANGED stores
    ELSE ThreadEnds(e, "finished", out)

\* execute_task, the body ran to its end or to a return (interpreter.rs 828-839)
Complete(e, st) ==
    /\ CanRun(e) /\ st.k \in {"return", "return_var", "return_div"}
    /\ Top(e).task # NoTask
    /\ StmtError(e, st) = <<>>
    /\ LET v == IF st.k = "return" THEN st.val
                ELSE IF st.k = "return_var" THEN env_get(Env(e), st.name)
                ELSE IntV(7 \div env_get(Env(e), st.name).v)
       IN /\ tasks' = update_task_state(Top(e).task, Completed(v))
          /\ Leave(e, OkOut(v))
          /\ rets' = IF get_task(Top(e).task) = 0 THEN rets
                      ELSE [rets EXCEPT ![Top(e).task] = @ \cup {v}]
    /\ writes' = Bump(Top(e).task)
    /\ UNCHANGED <<ready_queue, next_task_id, awaited, prog, execVars>>

\* execute_task, a statement of the body returned Err(e) (interpreter.rs 816-820):
\* the await it evaluated returned an error, or the statement st failed by itself
Fail(e, st) ==
    /\ Live(e) /\ Depth(e) > 0 /\ Top(e).pc = "run"
    /\ Top(e).task # NoTask
    /\ Top(e).out.kind # "err" => StmtError(e, st) # <<>>
    /\ LET m == IF Top(e).out.kind = "err" THEN Top(e).out.msg ELSE StmtError(e, st)
       IN /\ tasks' = update_task_state(Top(e).task, Failed(Display(m)))
          /\ Leave(e, ErrOut(m))
    /\ writes' = Bump(Top(e).task)
    /\ UNCHANGED <<ready_queue, next_task_id, rets, awaited, prog, execVars>>

\* execute_task returns into the await that ran it inline (pop_scope; Ok or Err)
Exit(e) ==
    /\ Live(e) /\ Depth(e) > 1 /\ Top(e).pc = "exit"
    /\ evals' = [evals EXCEPT ![e].stack =
           [SubSeq(@, 1, Depth(e) - 1) EXCEPT ![Depth(e) - 1] =
               [@ EXCEPT !.pc = "run", !.out = Top(e).out]]]
    /\ stores' = [stores EXCEPT ![evals[e].env] = pop_scope(@)]
    /\ UNCHANGED <<tasks, ready_queue, next_task_id, writes, rets, awaited, prog, execVars>>

\* a statement of a body panics in a join thread (`a % 0`, interpreter.rs 1439):
\* the thread unwinds, no task state is written
Panic(e, st) ==
    /\ e \in Threads
    /\ CanRun(e) /\ st.k = "panic"
    /\ ThreadEnds(e, "panicked", NoOut)
    /\ UNCHANGED <<tasks, ready_queue, next_task_id, writes, rets, awaited, prog, execVars>>

\* ---------------------------------------------------------------- await over a table
\* the tables a program awaits: positional entries and named fields whose
\* values are task ids (registered or not) or a non-integer
Entries == {IntV(t) : t \in 0..(MaxTasks - 1)} \cup {StrV}
RECURSIVE SeqsUpTo(_, _)
SeqsUpTo(S, n) ==
    IF n = 0 THEN {<<>>}
    ELSE SeqsUpTo(S, n - 1) \cup
         {Append(q, x) : q \in {r \in SeqsUpTo(S, n - 1) : Len(r) = n - 1}, x \in S}
Tables ==
    {[array |-> a, fields |-> f] :
        a \in SeqsUpTo(Entries, MaxArr),
        f \in UNION {[K -> Entries] : K \in SUBSET Keys}}

\* the task ids a table names
Named(T) ==
    {T.array[j].v : j \in {j \in 1..Len(T.array) : T.array[j].tag = "Int"}}
    \cup {T.fields[k].v : k \in {k \in DOMAIN T.fields : T.fields[k].tag = "Int"}}

\* the thread slot thread::spawn takes
FreeThreads == {th \in 1..prog.threads : evals[th].status = "free"}
FreeThread == CHOOSE th \in FreeThreads : \A o \in FreeThreads : th <= o

HandleThreads(hs) == {hs[j].th : j \in 1..Len(hs)}

\* dropping a JoinHandle detaches its thread; a thread that has ended is reclaimed
DropHandles(ev, ths) ==
    [x \in Evals |->
        IF x \in ths
        THEN IF ev[x].status = "running" THEN [ev[x] EXCEPT !.detached = TRUE]
             ELSE FreeEval
        ELSE ev[x]]
DropStores(st, ths) ==
    [x \in Evals |->
        IF x \in ths /\ evals[x].status # "running" THEN <<EmptyScope>> ELSE st[x]]

\* the frame when the await over a table returns: the locals of the arm
\* (handles, task_ids_array, task_ids_fields, result_table) are dropped
Returned(f, out) ==
    [NewFrame(f.task) EXCEPT !.n = f.n, !.op = "await_table", !.out = out]

\* `return Err(..)` out of the await expression
ReturnErr(e, f, m) ==
    /\ evals' = DropHandles(SetTop(e, Returned(f, ErrOut(m))), HandleThreads(f.handles))
    /\ stores' = DropStores(stores, HandleThreads(f.handles))

\* Expr::Await on Value::Table: the locals of the arm (interpreter.rs 1263-1269)
AwaitTable(e, st) ==
    /\ CanRun(e) /\ st.k = "await_table"
    /\ evals' = SetTop(e, [Step(Top(e)) EXCEPT
                   !.pc = IF Len(st.tbl.array) = 0 /\ DOMAIN st.tbl.fields = {}
                          THEN "collect" ELSE "dispatch",
                   !.op = "await_table", !.tbl = st.tbl, !.todo = DOMAIN st.tbl.fields,
                   !.done_at_start = {t \in Named(st.tbl) :
                       get_task(t) # 0 /\ Terminal(tasks[get_task(t)].state)},
                   !.env_at_start = Env(e)])
    /\ UNCHANGED <<tasks, ready_queue, next_task_id, stores, writes, rets, awaited, prog, execVars>>

\* the frame when the join loop is over and the collection starts
ToCollect(f) ==
    [f EXCEPT !.pc = "collect", !.i = 1, !.todo = DOMAIN f.task_ids_fields,
              !.failed_at_join =
                  {<<t, tasks[get_task(t)].state.msg>> :
                      t \in {u \in Named(f.tbl) :
                                get_task(u) # 0 /\ tasks[get_task(u)].state.tag = "Failed"}}]

\* the frame after one dispatch iteration
AfterDispatch(f) ==
    IF f.i > Len(f.tbl.array) /\ f.todo = {}
    THEN IF f.handles = <<>> THEN ToCollect(f) ELSE [f EXCEPT !.pc = "join"]
    ELSE f

\* one iteration of a dispatch loop (interpreter.rs 1272-1312 for the array,
\* 1315-1355 for the fields): isArr chooses the loop, k the field visited
Dispatch(e, isArr, k) ==
    /\ Live(e) /\ Depth(e) > 0 /\ Top(e).pc = "dispatch"
    /\ IF isArr THEN Top(e).i <= Len(Top(e).tbl.array)
       ELSE Top(e).i > Len(Top(e).tbl.array) /\ k \in Top(e).todo
    /\ LET f == Top(e)
           value == IF isArr THEN f.tbl.array[f.i] ELSE f.tbl.fields[k]
           tid == value.v
           idx == get_task(tid)
           f1 == IF isArr
                 THEN [f EXCEPT !.i = @ + 1, !.task_ids_array = Append(@, tid)]
                 ELSE [f EXCEPT !.todo = @ \ {k}, !.task_ids_fields = Put(@, k, tid)]
       IN IF value.tag # "Int"
          THEN /\ ReturnErr(e, f, MsgNotInt)
               /\ UNCHANGED awaited
          ELSE /\ awaited' = awaited \cup {tid}
               /\ IF idx = 0
                  THEN ReturnErr(e, f1, MsgNotFound(tid))
                  ELSE IF tasks[idx].state.tag = "Pending"
                  THEN /\ FreeThreads # {}
                       /\ LET th == FreeThread
                              sid == EnvClone(evals[e].env, th)
                              f2 == [f1 EXCEPT !.handles = Append(@, [tid |-> tid, th |-> th])]
                          IN /\ evals' = [SetTop(e, AfterDispatch(f2)) EXCEPT ![th] =
                                    [status |-> "running", detached |-> FALSE, env |-> sid,
                                     stack |-> <<NewFrame(tid)>>, result |-> NoOut]]
                             /\ stores' = [stores EXCEPT ![sid] = TaskEnv(Env(e), idx)]
                  ELSE /\ evals' = SetTop(e, AfterDispatch(f1))
                       /\ UNCHANGED stores
    /\ UNCHANGED <<tasks, ready_queue, next_task_id, writes, rets, prog, execVars>>

\* one iteration of the join loop (interpreter.rs 1358-1365): handle.join()
\* returns when the thread has ended, Err if it panicked
Join(e) ==
    /\ Live(e) /\ Depth(e) > 0 /\ Top(e).pc = "join"
    /\ LET f == Top(e)
           th == f.handles[1].th
           rest == SubSeq(f.handles, 2, Len(f.handles))
           f1 == [f EXCEPT !.handles = rest]
       IN /\ evals[th].status \in {"finished", "panicked"}
          /\ IF evals[th].status = "panicked"
             THEN ReturnErr(e, f, MsgPanicked)
             ELSE /\ evals' = [SetTop(e, IF rest = <<>> THEN ToCollect(f1) ELSE f1)
                                  EXCEPT ![th] = FreeEval]
                  /\ stores' = [stores EXCEPT ![th] = <<EmptyScope>>]
    /\ UNCHANGED <<tasks, ready_queue, next_task_id, writes, rets, awaited, prog, execVars>>

\* result_table.array.push(value) / result_table.fields.insert(key, value)
\* (interpreter.rs 1374, 1396)
CollectedDropNil(f, isArr, k, v) ==
    IF v = NilV THEN f
    ELSE IF isArr THEN [f EXCEPT !.result_table.array = Append(@, v)]
    ELSE [f EXCEPT !.result_table.fields = Put(@, k, v)]
Collected(f, isArr, k, v) ==
    IF isArr THEN [f EXCEPT !.result_table.array = Append(@, v)]
    ELSE [f EXCEPT !.result_table.fields = Put(@, k, v)]

\* one iteration of a collection loop (interpreter.rs 1370-1390 for the array,
\* 1392-1412 for the fields)
Collect(e, isArr, k) ==
    /\ Live(e) /\ Depth(e) > 0 /\ Top(e).pc = "collect"
    /\ IF isArr THEN Top(e).i <= Len(Top(e).task_ids_array)
       ELSE Top(e).i > Len(Top(e).task_ids_array) /\ k \in Top(e).todo
    /\ LET f == Top(e)
           tid == IF isArr THEN f.task_ids_array[f.i] ELSE f.task_ids_fields[k]
           idx == get_task(tid)
           f1 == IF isArr THEN [f EXCEPT !.i = @ + 1] ELSE [f EXCEPT !.todo = @ \ {k}]
       IN IF idx = 0
          THEN evals' = SetTop(e, f1)
          ELSE IF tasks[idx].state.tag = "Completed"
          THEN evals' = SetTop(e, Collected(f1, isArr, k, tasks[idx].state.val))
          ELSE IF tasks[idx].state.tag = "Failed"
          THEN evals' = SetTop(e, Returned(f, ErrOut(MsgFailed(tid, tasks[idx].state.msg))))
          ELSE evals' = SetTop(e, Returned(f, ErrOut(MsgDidNotComplete(tid))))
    /\ UNCHANGED <<tasks, ready_queue, next_task_id, stores, writes, rets, awaited, prog, execVars>>

\* Ok(Value::Table(result_table)) (interpreter.rs 1415)
CollectDone(e) ==
    /\ Live(e) /\ Depth(e) > 0 /\ Top(e).pc = "collect"
    /\ Top(e).i > Len(Top(e).task_ids_array) /\ Top(e).todo = {}
    /\ evals' = SetTop(e, Returned(Top(e), OkOut(TableV)))
    /\ UNCHANGED <<tasks, ready_queue, next_task_id, stores, writes, rets, awaited, prog, execVars>>

\* Interpreter::interpret: `self.execute_stmt(stmt)?` returns the error (interpreter.rs 794)
MainFail(st) ==
    /\ Live(Main) /\ Depth(Main) = 1 /\ Top(Main).pc = "run"
    /\ Top(Main).out.kind # "err" => StmtError(Main, st) # <<>>
    /\ evals' = [evals EXCEPT ![Main] =
           [@ EXCEPT !.status = "err",
                     !.result = IF Top(Main).out.kind = "err" THEN Top(Main).out
                                ELSE ErrOut(StmtError(Main, st))]]
    /\ UNCHANGED <<tasks, ready_queue, next_task_id, stores, writes, rets, awaited, prog, execVars>>

\* ---------------------------------------------------------------- programs
\* values a task body returns: `return 7`, or `return` / falling off the end
RetVals == {IntV(7), NilV}
\* `await {t}` in a task body
TaskTables == {T \in Tables : Len(T.array) = 1 /\ DOMAIN T.fields = {} /\ T.array[1].tag = "Int"}

\* Spec: the statements that may come next in a program that is not fixed. The
\* program spawns f(); a task body runs at most MaxBody statements before
\* it returns.
FreeStmts(e) ==
    LET f == Top(e)
        returns == {SReturn(v) : v \in RetVals}
    IN IF f.task = NoTask
       THEN {SSpawn("f", <<>>)} \cup {SAwait(t) : t \in 0..(MaxTasks - 1)}
            \cup {SAwaitTable(T) : T \in Tables}
       ELSE IF f.n >= MaxBody THEN returns
       ELSE returns \cup {SSpawn("f", <<>>)} \cup {SAwait(t) : t \in 0..(MaxTasks - 1)}
            \cup {SAwaitTable(T) : T \in TaskTables}
            \cup {SFail(m) : m \in BaseMsgs} \cup {SPanic}

\* FunctionValue.body of the task's function, or the statements of the Ast
Code(e) ==
    IF Top(e).task = NoTask THEN prog.main
    ELSE prog.body[tasks[get_task(Top(e).task)].function]

\* SpecProg: the next statement of the program; a body that runs off its end returns Nil
ScriptStmts(e) ==
    IF Top(e).n < Len(Code(e)) THEN {Code(e)[Top(e).n + 1]}
    ELSE IF Top(e).task # NoTask THEN {SReturn(NilV)}
    ELSE {}

Stmts(e) ==
    IF ~(Live(e) /\ Depth(e) > 0) THEN {}
    ELSE IF prog.free THEN FreeStmts(e) ELSE ScriptStmts(e)

NoStmt == Stmt("none")

Next ==
    \/ \E e \in Evals : \E st \in Stmts(e) : Spawn(e, st)
    \/ \E e \in Evals : \E st \in Stmts(e) : AwaitInt(e, st)
    \/ \E e \in Evals : \E st \in Stmts(e) : Complete(e, st)
    \/ \E e \in Evals : \E st \in Stmts(e) \cup {NoStmt} : Fail(e, st)
    \/ \E e \in Evals : Exit(e)
    \/ \E e \in Evals : \E st \in Stmts(e) : Panic(e, st)
    \/ \E e \in Evals : \E st \in Stmts(e) : AwaitTable(e, st)
    \/ \E e \in Evals, b \in BOOLEAN, k \in Keys : Dispatch(e, b, k)
    \/ \E e \in Evals : Join(e)
    \/ \E e \in Evals, b \in BOOLEAN, k \in Keys : Collect(e, b, k)
    \/ \E e \in Evals : CollectDone(e)
    \/ \E st \in Stmts(Main) \cup {NoStmt} : MainFail(st)

Spec == Init /\ [][Next]_vars

\* ---------------------------------------------------------------- fixed programs
\* SpecProg: programs with user functions f() and g(p), each with the number
\* of threads the host lets it run at a time
Prog(threads, main, f, g) ==
    [free |-> FALSE, threads |-> threads, main |-> main,
     body |-> [fn \in Funcs |-> IF fn = "f" THEN f ELSE g]]

SpawnF == SSpawn("f", <<>>)
SpawnG == SSpawn("g", <<IntV(0)>>)
JoinBoth == SAwaitTable(Tbl(<<IntV(0)>>, Field("k", IntV(1))))
JoinFirst == SAwaitTable(Tbl(<<IntV(0)>>, EmptyScope))

DefX == SDefine("x", IntV(1))
DefY == SDefine("y", IntV(1))

\* the statements of the main program; it declares x and y first, so that
\* the type checker accepts the names the functions use
Mains ==
    {<<DefX, DefY, SpawnF, SpawnG, JoinBoth, SAssign("x", IntV(2))>>,
     <<DefX, DefY, SpawnF, SpawnG, SAwaitTable(Tbl(<<IntV(1)>>, Field("k", IntV(0))))>>,
     <<DefX, DefY, SpawnF, SpawnG, SAwaitTable(Tbl(<<IntV(1), IntV(0)>>, Field("k", IntV(1))))>>,
     <<DefX, DefY, SpawnG, JoinFirst, SAwait(0), SpawnF>>,
     <<DefX, DefY, SpawnG, SAwait(0), SAwait(0)>>,
     <<DefX, DefY, SpawnF, SAwaitTable(Tbl(<<IntV(0)>>, Field("k", StrV)))>>,
     <<DefX, DefY, SpawnF, SpawnG, SAwait(1), SAwait(0), SAwait(0)>>,
     \* g(p) spawned without its argument
     <<DefX, DefY, SSpawn("g", <<>>), SAwait(0)>>}

\* the bodies of f(): it returns a constant, divides by a variable of the
\* caller, assigns a variable of the caller, declares a local, panics, fails,
\* awaits task 1
FBodies ==
    {<<SReturn(IntV(7))>>,
     <<SReturnDiv("y")>>,
     <<SAssign("x", IntV(7)), SReturnVar("x")>>,
     <<SDefine("x", IntV(3)), SReturnVar("x")>>,
     <<SPanic>>,
     <<SFail(MsgDivZero)>>,
     <<SAwait(1)>>}

\* the bodies of g(p): it awaits task 0 by id and then in a table, sets y to 0
\* in its store and joins task 0 or awaits it by id, assigns its parameter and
\* reads x, spawns f, fails, returns its parameter, is empty
GBodies ==
    {<<SAwait(0), JoinFirst>>,
     <<SAssign("y", IntV(0)), JoinFirst>>,
     <<SAssign("y", IntV(0)), SAwait(0)>>,
     <<SAssign("p", IntV(7)), SReturnVar("x")>>,
     <<SpawnF, SReturnVar("p")>>,
     <<SDefine("z", IntV(1)), SpawnF>>,
     <<SFail(MsgDivZero)>>,
     <<SReturnVar("p")>>,
     <<>>}

Programs == {Prog(MaxThreads, m, f, g) : m \in Mains, f \in FBodies, g \in GBodies}

InitProg == \E p \in Programs : InitWith(p)

NextProg ==
    \/ Next
    \/ \E e \in Evals : \E st \in Stmts(e) : Define(e, st)
    \/ \E e \in Evals : \E st \in Stmts(e) : Assign(e, st)

SpecProg == InitProg /\ [][NextProg]_vars

\* ---------------------------------------------------------------- executor, lock by lock
\* SpecExec: threads that share the executor call spawn, spawn_function,
\* get_task, update_task_state and get_next_ready_task; a step is one lock
\* acquisition or one critical section. A MutexGuard is released when the
\* function returns.
Callers == 1..MaxCallers
NoLocks == [next_task_id |-> 0, tasks |-> 0, ready_queue |-> 0]
Idle == [op |-> "none", task_id |-> 0, fn |-> "f", args |-> <<>>, st |-> Pending]

\* Task::new
new(id) == [id |-> id, state |-> Pending, function |-> "none", arguments |-> <<>>]

InitExec ==
    /\ tasks = <<>>
    /\ ready_queue = <<>>
    /\ next_task_id = 0
    /\ evals = [e \in Evals |-> FreeEval]
    /\ stores = [e \in Evals |-> <<EmptyScope>>]
    /\ writes = [t \in 0..(MaxTasks - 1) |-> 0]
    /\ rets = [t \in 0..(MaxTasks - 1) |-> {}]
    /\ awaited = {}
    /\ prog = FreeProg
    /\ xpc = [c \in Callers |-> "idle"]
    /\ xlocal = [c \in Callers |-> Idle]
    /\ locks = NoLocks
    /\ NoRun

\* the guard `next_id` lives until spawn / spawn_function returns
DropNextId(l, c) == [l EXCEPT !.next_task_id = 0]
HoldNextId(l, c) == l

\* the return of an executor method: every guard of the caller is dropped
Release(c) == [m \in DOMAIN locks |-> IF locks[m] = c THEN 0 ELSE locks[m]]
Return(c) ==
    /\ locks' = Release(c)
    /\ xpc' = [xpc EXCEPT ![c] = "idle"]
    /\ xlocal' = [xlocal EXCEPT ![c] = Idle]

\* spawn / spawn_function: self.next_task_id.lock()
LockNextId(c, op, fn, args) ==
    /\ xpc[c] = "idle" /\ locks.next_task_id = 0
    /\ next_task_id < MaxSpawns
    /\ locks' = [locks EXCEPT !.next_task_id = c]
    /\ xpc' = [xpc EXCEPT ![c] = "take_id"]
    /\ xlocal' = [xlocal EXCEPT ![c] = [Idle EXCEPT !.op = op, !.fn = fn, !.args = args]]
    /\ UNCHANGED <<tasks, ready_queue, next_task_id, joinVars>>

\* let task_id = *next_id; *next_id += 1;
TakeId(c) ==
    /\ xpc[c] = "take_id"
    /\ xlocal' = [xlocal EXCEPT ![c].task_id = next_task_id]
    /\ next_task_id' = next_task_id + 1
    /\ locks' = HoldNextId(locks, c)
    /\ xpc' = [xpc EXCEPT ![c] = "lock_tasks"]
    /\ UNCHANGED <<tasks, ready_queue, joinVars>>

\* self.tasks.lock(), in any of the methods
LockTasks(c) ==
    /\ xpc[c] = "lock_tasks" /\ locks.tasks = 0
    /\ locks' = [locks EXCEPT !.tasks = c]
    /\ xpc' = [xpc EXCEPT ![c] = "in_tasks"]
    /\ UNCHANGED <<tasks, ready_queue, next_task_id, xlocal, joinVars>>

\* tasks.push(task); spawn_function returns, spawn goes on to the ready queue
PushTask(c) ==
    /\ xpc[c] = "in_tasks" /\ xlocal[c].op \in {"spawn", "spawn_function"}
    /\ tasks' = Append(tasks,
           IF xlocal[c].op = "spawn" THEN new(xlocal[c].task_id)
           ELSE new_with_function(xlocal[c].task_id, xlocal[c].fn, xlocal[c].args))
    /\ IF xlocal[c].op = "spawn"
       THEN /\ xpc' = [xpc EXCEPT ![c] = "lock_queue"]
            /\ UNCHANGED <<locks, xlocal>>
       ELSE Return(c)
    /\ UNCHANGED <<ready_queue, next_task_id, joinVars>>

\* self.ready_queue.lock()
LockQueue(c) ==
    /\ xpc[c] = "lock_queue" /\ locks.ready_queue = 0
    /\ locks' = [locks EXCEPT !.ready_queue = c]
    /\ xpc' = [xpc EXCEPT ![c] = "in_queue"]
    /\ UNCHANGED <<tasks, ready_queue, next_task_id, xlocal, joinVars>>

\* spawn: queue.push_back(task_id)
PushQueue(c) ==
    /\ xpc[c] = "in_queue" /\ xlocal[c].op = "spawn"
    /\ ready_queue' = Append(ready_queue, xlocal[c].task_id)
    /\ Return(c)
    /\ UNCHANGED <<tasks, next_task_id, joinVars>>

\* get_task(tid) / update_task_state(tid, st) / get_next_ready_task() is called
Call(c, op, tid, st) ==
    /\ xpc[c] = "idle"
    /\ xpc' = [xpc EXCEPT ![c] = IF op = "get_next_ready_task" THEN "lock_queue"
                                 ELSE "lock_tasks"]
    /\ xlocal' = [xlocal EXCEPT ![c] = [Idle EXCEPT !.op = op, !.task_id = tid, !.st = st]]
    /\ UNCHANGED <<tasks, ready_queue, next_task_id, locks, joinVars>>

\* get_task: tasks.iter().find(..).cloned()
GetTask(c) ==
    /\ xpc[c] = "in_tasks" /\ xlocal[c].op = "get_task"
    /\ Return(c)
    /\ UNCHANGED <<tasks, ready_queue, next_task_id, joinVars>>

\* update_task_state: task.state = state on the first task with that id
UpdateTaskState(c) ==
    /\ xpc[c] = "in_tasks" /\ xlocal[c].op = "update_task_state"
    /\ tasks' = update_task_state(xlocal[c].task_id, xlocal[c].st)
    /\ Return(c)
    /\ UNCHANGED <<ready_queue, next_task_id, joinVars>>

\* get_next_ready_task: queue.pop_front()
PopQueue(c) ==
    /\ xpc[c] = "in_queue" /\ xlocal[c].op = "get_next_ready_task"
    /\ ready_queue' = IF ready_queue = <<>> THEN ready_queue
                      ELSE SubSeq(ready_queue, 2, Len(ready_queue))
    /\ Return(c)
    /\ UNCHANGED <<tasks, next_task_id, joinVars>>

ExecStates == {Completed(NilV)}

NextExec ==
    \/ \E c \in Callers : LockNextId(c, "spawn", "f", <<>>)
    \/ \E c \in Callers : \E fn \in Funcs : LockNextId(c, "spawn_function", fn, <<>>)
    \/ \E c \in Callers : TakeId(c)
    \/ \E c \in Callers : LockTasks(c)
    \/ \E c \in Callers : PushTask(c)
    \/ \E c \in Callers : LockQueue(c)
    \/ \E c \in Callers : PushQueue(c)
    \/ \E c \in Callers : Call(c, "get_task", 0, Pending)
    \/ \E c \in Callers : \E tid \in 0..(MaxSpawns - 1) : \E st \in ExecStates :
          Call(c, "update_task_state", tid, st)
    \/ \E c \in Callers : Call(c, "get_next_ready_task", 0, Pending)
    \/ \E c \in Callers : GetTask(c)
    \/ \E c \in Callers : UpdateTaskState(c)
    \/ \E c \in Callers : PopQueue(c)

SpecExec == InitExec /\ [][NextExec]_vars

\* ---------------------------------------------------------------- claims
Registered == {tasks[i].id : i \in 1..Len(tasks)}
StateOf(t) == tasks[get_task(t)].state

\* C1: terminal task states are absorbing: once a task is Completed or Failed,
\* no step writes its state again (update_task_state is not called on it and
\* the stored state stays what it is).
C1_TerminalAbsorbing ==
    [][\A i \in 1..Len(tasks) :
          Terminal(tasks[i].state) =>
              /\ tasks'[i].state = tasks[i].state
              /\ writes'[tasks[i].id] = writes[tasks[i].id]]_vars

\* C2: no task goes from Pending directly to a terminal state: every step that
\* leaves Pending leads to Running.
C2_ThroughRunning ==
    [][\A i \in 1..Len(tasks) :
          tasks[i].state.tag = "Pending" => ~Terminal(tasks'[i].state)]_vars

\* C3: once an await over a table has returned (its join handles are dropped),
\* none of the threads it started is still running.
C3_NoThreadOutlivesAwait ==
    \A th \in Threads : ~(evals[th].status = "running" /\ evals[th].detached)

\* the step of evaluator e is the evaluation of `await tid`
AwaitIntStep(e, tid) ==
    /\ CanRun(e)
    /\ evals'[e] # evals[e]
    /\ evals'[e].status = "running" /\ evals'[e].detached = evals[e].detached
    /\ Len(evals'[e].stack) >= Depth(e)
    /\ evals'[e].stack[Depth(e)].op = "await_int"
    /\ evals'[e].stack[Depth(e)].arg = tid
    /\ evals'[e].stack[Depth(e)].pc \in {"run", "await_int"}
    /\ evals'[e].stack[Depth(e)].n = Step(Top(e)).n
    /\ evals'[e].stack[Depth(e)] # Top(e)

\* the step of evaluator e is the return of the execute_task that an
\* `await tid` runs inline
InlineReturnStep(e) ==
    /\ Live(e) /\ Depth(e) > 1 /\ Top(e).pc = "exit"
    /\ Len(evals'[e].stack) = Depth(e) - 1

\* C5: await on an Int id. Completed(v): the result is v and no body runs.
\* Failed(m): a runtime error carrying m. Pending: the awaiting evaluator runs
\* the body itself (a new activation on its own stack, no thread started), and
\* when that await returns the task is Completed with the value returned or
\* Failed with the message of the error returned.
C5_AwaitInt ==
    [][\A e \in Evals :
        /\ \A tid \in Registered :
              AwaitIntStep(e, tid) =>
                  LET g == evals'[e].stack[Depth(e)]
                  IN CASE StateOf(tid).tag = "Completed" ->
                            /\ Len(evals'[e].stack) = Depth(e)
                            /\ g.out = OkOut(StateOf(tid).val)
                       [] StateOf(tid).tag = "Failed" ->
                            /\ Len(evals'[e].stack) = Depth(e)
                            /\ g.out.kind = "err"
                            /\ Carries(StateOf(tid).msg, g.out.msg)
                       [] StateOf(tid).tag = "Pending" ->
                            /\ Len(evals'[e].stack) = Depth(e) + 1
                            /\ evals'[e].stack[Depth(e) + 1] = NewFrame(tid)
                            /\ \A th \in Threads \ {e} : evals'[th] = evals[th]
                       [] OTHER -> TRUE
        /\ InlineReturnStep(e) =>
              LET out == Top(e).out
                  st == StateOf(Top(e).task)
              IN IF out.kind = "ok" THEN st = Completed(out.val)
                 ELSE st.tag = "Failed" /\ Carries(out.msg, st.msg)]_vars

\* evaluator e is inside an await over a table
InJoin(e) ==
    Live(e) /\ Depth(e) > 0 /\ Top(e).pc \in {"dispatch", "join", "collect"}
\* the collection loops of the await of evaluator e are over: it returns its result
JoinDone(e) ==
    /\ Live(e) /\ Depth(e) > 0 /\ Top(e).pc = "collect"
    /\ Top(e).i > Len(Top(e).task_ids_array) /\ Top(e).todo = {}
\* the step of evaluator e is the return of its await over a table
JoinReturnStep(e) ==
    /\ InJoin(e)
    /\ Len(evals'[e].stack) = Depth(e)
    /\ evals'[e].stack[Depth(e)].pc = "run"

\* C4: a task that is terminal when an await over a table starts is not
\* executed again by it: the await starts no thread for it, its state is not
\* written while the await runs, and what the await collects for it is the
\* outcome that was stored.
C4_TerminalPassedThrough ==
    [][\A e \in Evals : InJoin(e) =>
          \A t \in Top(e).done_at_start :
              /\ \A j \in 1..Len(Top(e).handles) : Top(e).handles[j].tid # t
              /\ tasks'[get_task(t)].state = StateOf(t)
              /\ writes'[t] = writes[t]
              /\ \A j \in 1..Len(Top(e).result_table.array) :
                    Top(e).task_ids_array[j] = t =>
                        StateOf(t) = Completed(Top(e).result_table.array[j])]_vars

\* the activations (frames of execute_task) of task t, on any evaluator
Activations(t) ==
    {<<e, j>> \in Evals \X (1..MaxDepth) :
        j <= Len(evals[e].stack) /\ evals[e].stack[j].task = t}

\* a task that no await has named is Pending and has no activation
NeverAwaitedPending ==
    \A i \in 1..Len(tasks) :
        tasks[i].id \notin awaited =>
            tasks[i].state = Pending /\ Activations(tasks[i].id) = {}

\* C6: spawn never starts work. The step that registers a task appends exactly
\* one task, Pending, holding the function and the arguments of the spawn
\* expression; the spawning evaluator gets the id as an Int and no other
\* evaluator moves; the ready queue is unchanged; and a task that no await has
\* named stays Pending, with no activation, in every state.
C6_SpawnNeverStartsWork ==
    [][/\ NeverAwaitedPending
       /\ NeverAwaitedPending'
       /\ ready_queue' = ready_queue
       /\ tasks' # tasks /\ Len(tasks') # Len(tasks) =>
             /\ Len(tasks') = Len(tasks) + 1
             /\ SubSeq(tasks', 1, Len(tasks)) = tasks
             /\ tasks'[Len(tasks')].state = Pending
             /\ \E e \in Evals : \E st \in Stmts(e) :
                   /\ st.k = "spawn"
                   /\ tasks'[Len(tasks')].function = st.fn
                   /\ tasks'[Len(tasks')].arguments = st.args
                   /\ Len(evals'[e].stack) = Depth(e)
                   /\ evals'[e].stack[Depth(e)].out = OkOut(IntV(tasks'[Len(tasks')].id))
                   /\ \A o \in Evals \ {e} : evals'[o] = evals[o]
             /\ stores' = stores]_vars
\* a task spawned with an argument from a task body has run to completion and
\* the task it spawned, never awaited, is still Pending
C6_Witness ==
    /\ Len(tasks) = 2
    /\ tasks[1].function = "g" /\ tasks[1].arguments = <<IntV(0)>>
    /\ tasks[1].state.tag = "Completed"
    /\ tasks[2].id \notin awaited /\ tasks[2].state = Pending
    /\ evals[Main].stack[1].op = "await_table"

\* C7: when an await over a table T succeeds, its result R has the positional
\* length of T and exactly the named keys of T, R[i] is a value returned by
\* the task whose id is T[i], and R.k a value returned by the task whose id is T.k.
C7_JoinResultShape ==
    \A e \in Evals : JoinDone(e) =>
        LET T == Top(e).tbl
            R == Top(e).result_table
        IN /\ Len(R.array) = Len(T.array)
           /\ DOMAIN R.fields = DOMAIN T.fields
           /\ \A i \in 1..Len(T.array) :
                 T.array[i].tag = "Int" /\ R.array[i] \in rets[T.array[i].v]
           /\ \A k \in DOMAIN T.fields :
                 T.fields[k].tag = "Int" /\ R.fields[k] \in rets[T.fields[k].v]
\* the join {1, 0, k = 1} of two tasks that returned different values is about
\* to return {0, 7, k = 0}
C7_Witness ==
    \E e \in Evals :
        /\ JoinDone(e)
        /\ Top(e).tbl = Tbl(<<IntV(1), IntV(0)>>, Field("k", IntV(1)))
        /\ Top(e).result_table = Tbl(<<IntV(0), IntV(7)>>, Field("k", IntV(0)))

\* C8: if a task named in the awaited table is Failed once the threads have
\* been joined, the await returns an error, not a result table, and the error
\* carries the failure message of such a task.
C8_JoinFailure ==
    [][\A e \in Evals :
          JoinReturnStep(e) /\ Top(e).pc = "collect" /\ Top(e).failed_at_join # {} =>
              LET out == evals'[e].stack[Depth(e)].out
              IN /\ out.kind = "err"
                 /\ \E p \in Top(e).failed_at_join : Carries(p[2], out.msg)]_vars

\* C9: each task thread of a join works on its own copy of the variable store:
\* no two running evaluators share a store, the store of an evaluator inside
\* an await over a table is what it was when the await started, and a store
\* changes only in a step of the evaluator that owns it.
StoresApart ==
    /\ \A e1, e2 \in Evals :
          Live(e1) /\ Live(e2) /\ e1 # e2 => evals[e1].env # evals[e2].env
    /\ \A e \in Evals : InJoin(e) => Env(e) = Top(e).env_at_start
C10_DenseIds ==
    /\ \A i \in 1..Len(tasks) : tasks[i].id = i - 1
    /\ \A i, j \in 1..Len(tasks) : tasks[i].id = tasks[j].id => i = j
    /\ Len(tasks) <= next_task_id
\* two callers have spawned concurrently: the second took its id while the
\* first was still between taking its id and registering its task
C10_Witness ==
    /\ Len(tasks) = 1
    /\ \E c \in Callers :
          /\ xpc[c] = "lock_tasks" /\ xlocal[c].task_id = 1
          /\ xlocal[c].op = "spawn_function"
    /\ \E c \in Callers : xpc[c] = "lock_queue" /\ xlocal[c].task_id = 0

\* ================================================================ run, without tasks
\* ---------------------------------------------------------------- bounds
MaxSteps == 7

\* ---------------------------------------------------------------- values
\* Value: Bool(b) holds 1 for true and 0 for false, String(s) the text, Table(t) a
\* TableValue, Function(f) the params and body, NativeFunction(f) the name and arity
Value(tag, v) == [tag |-> tag, v |-> v]
BoolV(b) == Value("Bool", IF b THEN 1 ELSE 0)

\* Value::is_truthy
is_truthy_zero(v) == ~(v.tag = "Nil" \/ (v.tag \in {"Bool", "Int"} /\ v.v = 0))
is_truthy(v) == ~(v.tag = "Nil" \/ (v.tag = "Bool" /\ v.v = 0))

\* TableValue::set
table_set(t, key, value) ==
    IF key.tag = "Int" /\ key.v > 0
    THEN LET a == t.array
             n == IF key.v > Len(a) THEN key.v ELSE Len(a)
         IN [t EXCEPT !.array = [i \in 1..n |-> IF i = key.v THEN value
                                                   ELSE IF i <= Len(a) THEN a[i] ELSE NilV]]
    ELSE IF key.tag = "String"
    THEN [t EXCEPT !.fields = Put(@, key.v, value)]
    ELSE t

\* ---------------------------------------------------------------- the syntax tree
\* Statements and expressions are tuples headed by the name of their variant
\* (parser/ast.rs), an absent optional part being <<>>:
\*   <<"import", path>>                  <<"local", name, type, initializer>>
\*   <<"fn", name, params, return_type, body>>      with params of <<name, type>>
\*   <<"expr", e>>    <<"if", condition, then_branch, else_branch>>
\*   <<"while", condition, body>>        <<"for", initializer, condition, increment, body>>
\*   <<"return", e>>  <<"break">>  <<"continue">>  <<"block", statements>>
\*   <<"lit", value>>  <<"var", name>>  <<"assign", target, e>>  <<"call", callee, arguments>>
\*   <<"binary", op, left, right>>  <<"unary", op, operand>>
\*   <<"table", fields>>    with fields of <<key, e>>, a key <<"id", name>> or <<"expr", e>>
\*   <<"entries", entries>> a table constructor before the parser numbered it
\* Types are <<"Int">>, <<"Nil">>, ..., <<"Function", params, return_type>>.

\* ControlFlow
ControlFlow(tag, v) == [tag |-> tag, v |-> v]

\* Interpreter::new, with register_builtins; log, loops, calls and steps are
\* history: what was executed, the loops and calls that are open, the work done
NewInterpreter ==
    [env |-> <<Field("print", Value("NativeFunction", [name |-> "print", arity |-> 1]))>>,
     control_flow |-> ControlFlow("None", NilV),
     loaded_modules |-> {}, out |-> <<>>, err |-> "",
     log |-> <<>>, loops |-> <<>>, calls |-> 0, steps |-> 0]

\* LuxError::runtime_error / type_error, returned through `?`
Raise(I, msg) == [I EXCEPT !.err = msg]
Note(I, event) == [I EXCEPT !.log = Append(@, event)]
Val(v, I) == [v |-> v, i |-> I]
\* one more iteration, call or module load; a run that needs more than MaxSteps
\* of them does not return
Tick(I) == IF I.steps >= MaxSteps THEN Raise(I, "diverges") ELSE [I EXCEPT !.steps = @ + 1]

\* Parser::table_literal: each entry is pushed on `fields`; an entry without a key
\* gets the key Literal::Integer(fields.len() + 1)
table_literal(entries) ==
    [n \in 1..Len(entries) |->
        IF entries[n][1] = <<>>
        THEN <<<<"expr", <<"lit", IntV((n - 1) + 1)>>>>, entries[n][2]>>
        ELSE entries[n]]

\* Parser::parse, for the table constructors that initialize a declaration
parse(statements) ==
    [n \in 1..Len(statements) |->
        LET st == statements[n]
        IN IF st[1] = "local" /\ st[4] # <<>> /\ st[4][1] = "entries"
           THEN <<"local", st[2], st[3], <<"table", table_literal(st[4][2])>>>>
           \* function_declaration: a parameter without annotation gets Type::Nil
           ELSE IF st[1] = "fn"
           THEN <<"fn", st[2],
                  [p \in 1..Len(st[3]) |->
                      <<st[3][p][1], IF st[3][p][2] = <<>> THEN <<"Nil">> ELSE st[3][p][2]>>],
                  st[4], st[5]>>
           ELSE st]

\* Interpreter::eval_binary, for the operators of the programs below (no program
\* adds strings or computes with floats).  Int / and % are those of i64: the
\* quotient is truncated towards zero, and `a % b` with b = 0 panics.
eval_binary(a, op, b, I) ==
    LET abs(n) == IF n < 0 THEN 0 - n ELSE n
        quotient == IF (a.v < 0) # (b.v < 0) THEN 0 - (abs(a.v) \div abs(b.v))
                    ELSE abs(a.v) \div abs(b.v)
    IN IF a.tag = "Int" /\ b.tag = "Int"
       THEN (CASE op = "+" -> Val(IntV(a.v + b.v), I)
               [] op = "-" -> Val(IntV(a.v - b.v), I)
               [] op = "/" -> IF b.v = 0 THEN Val(NilV, Raise(I, "Division by zero"))
                              ELSE Val(IntV(quotient), I)
               [] op = "%" -> IF b.v = 0 THEN Val(NilV, Raise(I, "panic"))
                              ELSE Val(IntV(a.v - b.v * quotient), I)
               [] op = "==" -> Val(BoolV(a.v = b.v), I)
               [] op = "<" -> Val(BoolV(a.v < b.v), I))
       ELSE IF a.tag = b.tag /\ a.tag \in {"Float", "String"}
       THEN (CASE op = "==" -> Val(BoolV(a = b), I))
       ELSE IF op = "==" THEN Val(BoolV(a.tag = b.tag /\ a = b), I)
       ELSE Val(NilV, Raise(I, "Type mismatch"))

\* A method of the evaluator or of the type checker calls another one through
\* Visit (defined after the methods), which names the method, its arguments
\* and the state of `self`.
RECURSIVE Visit(_, _, _)

\* the statement loops of interpret, call_function, import_module and of
\* Stmt::If, While, For and Block: statement i and the ones after it, until one
\* fails or leaves the register in a state of `stop`
execute_stmts(statements, i, I, stop) ==
    IF i > Len(statements) \/ I.err # "" THEN I
    ELSE LET J == Visit("execute_stmt", <<statements[i]>>, I)
         IN IF J.err # "" \/ J.control_flow.tag \in stop \/ i = Len(statements) THEN J
            ELSE Visit("execute_stmts", <<statements, i + 1, stop>>,
                       Note(J, <<"next", J.control_flow.tag>>))

\* Interpreter::call_function
call_function(func, args, I) ==
    IF func.tag = "NativeFunction"
    THEN IF Len(args) # func.v.arity THEN Val(NilV, Raise(I, "Expected arguments"))
         ELSE Val(NilV, [I EXCEPT !.out = Append(@, args[1])])
    ELSE IF func.tag = "Function"
    THEN IF Len(args) # Len(func.v.params) THEN Val(NilV, Raise(I, "Expected arguments"))
         ELSE LET T == Tick(I)
                  P == [T EXCEPT !.env = BindParams(push_scope(@), func.v.params, args, 1),
                                 !.calls = @ + 1, !.loops = Append(@, 0)]
                  J == Visit("execute_stmts", <<func.v.body, 1, {"Return"}>>, P)
                  v == IF J.control_flow.tag = "Return" THEN J.control_flow.v ELSE NilV
                  R == [J EXCEPT !.control_flow = ControlFlow("None", NilV),
                                 !.env = pop_scope(@),
                                 !.calls = I.calls, !.loops = I.loops]
              IN IF T.err # "" THEN Val(NilV, T)
                 ELSE IF J.err # "" THEN Val(NilV, J)
                 ELSE Val(v, Note(Note(R, <<"body", "fn", Len(I.log), I.env, R.env>>),
                                  <<"called", Len(I.log), Len(I.env), Len(R.env),
                                    R.control_flow.tag, v, I.calls>>))
    ELSE Val(NilV, Raise(I, "Cannot call"))

\* Interpreter::eval_expr, with eval_unary (no program measures a string)
eval_expr(e, I) ==
    CASE e[1] = "lit" -> Val(e[2], I)
      [] e[1] = "var" ->
            IF SetIdx(I.env, e[2]) = 0 THEN Val(NilV, Raise(I, "Undefined variable"))
            ELSE Val(env_get(I.env, e[2]), I)
      [] e[1] = "binary" ->
            LET L == Visit("eval_expr", <<e[3]>>, I)
                R == Visit("eval_expr", <<e[4]>>, L.i)
            IN IF L.i.err # "" THEN L
               ELSE IF R.i.err # "" THEN R
               ELSE eval_binary(L.v, e[2], R.v, R.i)
      [] e[1] = "unary" ->
            LET V == Visit("eval_expr", <<e[3]>>, I)
            IN IF V.i.err # "" THEN V
               ELSE (CASE e[2] = "-" ->
                            IF V.v.tag = "Int" THEN Val(IntV(0 - V.v.v), V.i)
                            ELSE Val(NilV, Raise(V.i, "Cannot negate"))
                       [] e[2] = "not" -> Val(BoolV(~is_truthy(V.v)), V.i)
                       [] e[2] = "#" ->
                            IF V.v.tag = "Table" THEN Val(IntV(Len(V.v.v.array)), V.i)
                            ELSE Val(NilV, Raise(V.i, "Cannot get length"))
                       [] e[2] = "&" -> Val(Value("Pointer", V.v), V.i)
                       [] e[2] = "*" ->
                            IF V.v.tag = "Pointer" THEN Val(V.v.v, V.i)
                            ELSE Val(NilV, Raise(V.i, "Cannot dereference")))
      [] e[1] = "logical" ->
            LET L == Visit("eval_expr", <<e[3]>>, I)
            IN IF L.i.err # "" THEN L
               ELSE IF e[2] = "and"
               THEN (IF ~is_truthy(L.v) THEN L ELSE Visit("eval_expr", <<e[4]>>, L.i))
               ELSE (IF is_truthy(L.v) THEN L ELSE Visit("eval_expr", <<e[4]>>, L.i))
      [] e[1] = "assign" ->
            LET V == Visit("eval_expr", <<e[3]>>, I)
            IN IF V.i.err # "" THEN V
               ELSE IF SetIdx(V.i.env, e[2]) = 0
               THEN Val(NilV, Raise(V.i, "Undefined variable"))
               ELSE Val(V.v, Note([V.i EXCEPT !.env = env_set(@, e[2], V.v)],
                                  <<"assign", e[2]>>))
      [] e[1] = "call" ->
            LET F == Visit("eval_expr", <<e[2]>>, I)
                RECURSIVE arguments(_, _)
                arguments(n, A) ==
                    IF n > Len(e[3]) \/ A.i.err # "" THEN A
                    ELSE LET V == Visit("eval_expr", <<e[3][n]>>, A.i)
                         IN arguments(n + 1, Val(Append(A.v, V.v), V.i))
                A == arguments(1, Val(<<>>, F.i))
            IN IF F.i.err # "" THEN F
               ELSE IF A.i.err # "" THEN Val(NilV, A.i)
               ELSE Visit("call_function", <<F.v, A.v>>, A.i)
      [] e[1] = "table" ->
            LET RECURSIVE fields(_, _)
                fields(n, A) ==
                    IF n > Len(e[2]) \/ A.i.err # "" THEN A
                    ELSE LET V == Visit("eval_expr", <<e[2][n][2]>>, A.i)
                             key == e[2][n][1]
                             K == IF V.i.err # "" THEN V
                                  ELSE IF key[1] = "id" THEN Val(Value("String", key[2]), V.i)
                                  ELSE Visit("eval_expr", <<key[2]>>, V.i)
                         IN fields(n + 1, Val(table_set(A.v, K.v, V.v), K.i))
                A == fields(1, Val(EmptyTable, I))
            IN Val(Value("Table", A.v), A.i)

\* Stmt::While and Stmt::For from the evaluation of the condition on: `id` names
\* the loop in the history
execute_loop(st, id, I) ==
    LET condition == IF st[1] = "for" THEN st[3] ELSE st[2]
        body == IF st[1] = "for" THEN st[5] ELSE st[3]
        increment == IF st[1] = "for" THEN st[4] ELSE <<>>
        C == IF condition = <<>> THEN Val(BoolV(TRUE), I)
             ELSE Visit("eval_expr", <<condition>>, Note(I, <<"cond", id>>))
        E == Visit("execute_stmts", <<body, 1, {"Return", "Break", "Continue"}>>, Tick(C.i))
        B == Note(E, <<"body", st[1], Len(C.i.log), C.i.env, E.env>>)
        tag == B.control_flow.tag
        K == IF tag \in {"Break", "Continue"}
             THEN Note([B EXCEPT !.control_flow = ControlFlow("None", NilV)],
                       <<"consumed", id, tag>>)
             ELSE B
        S == IF increment = <<>> THEN K
             ELSE Visit("eval_expr", <<increment>>, Note(K, <<"step", id>>)).i
    IN IF C.i.err # "" THEN C.i
       ELSE IF ~is_truthy(C.v) THEN Note(C.i, <<"loopend", id, "cond", C.i.control_flow.tag>>)
       ELSE IF B.err # "" THEN B
       ELSE IF tag = "Break" THEN Note(K, <<"loopend", id, "break", K.control_flow.tag>>)
       ELSE IF tag = "Return" THEN B
       ELSE IF S.err # "" THEN S
       ELSE Visit("execute_loop", <<st, id>>, S)

\* Interpreter::execute_stmt, with import_module (the files are source.modules)
execute_stmt(st, I0) ==
    LET I == Note(I0, <<"stmt", st[1], Len(I0.env),
                        IF st[1] \in {"local", "fn"} THEN st[2] ELSE "",
                        IF I0.loops = <<>> THEN 0 ELSE I0.loops[Len(I0.loops)]>>)
        id == Len(I.log)
    IN CASE st[1] = "import" ->
               IF st[2] \in I.loaded_modules THEN I
               ELSE IF st[2] \notin DOMAIN source.modules THEN Raise(I, "Module not found")
               ELSE LET T == Tick(Note(I, <<"load", st[2]>>))
                        J == Visit("execute_stmts", <<parse(source.modules[st[2]]), 1, {}>>, T)
                    IN IF J.err # "" THEN J
                       ELSE [J EXCEPT !.loaded_modules = @ \cup {st[2]}]
         [] st[1] = "local" ->
               LET V == IF st[4] = <<>> THEN Val(NilV, I) ELSE Visit("eval_expr", <<st[4]>>, I)
               IN IF V.i.err # "" THEN V.i
                  ELSE [V.i EXCEPT !.env = define(@, st[2], V.v)]
         [] st[1] = "fn" ->
               [I EXCEPT !.env = define(@, st[2],
                    Value("Function", [params |-> [n \in 1..Len(st[3]) |-> st[3][n][1]],
                                       body |-> st[5]]))]
         [] st[1] = "expr" -> Visit("eval_expr", <<st[2]>>, I).i
         [] st[1] = "if" ->
               LET C == Visit("eval_expr", <<st[2]>>, I)
                   J == Visit("execute_stmts", <<IF is_truthy(C.v) THEN st[3] ELSE st[4], 1, {"Return", "Break", "Continue"}>>,
                              C.i)
               IN IF C.i.err # "" THEN C.i
                  ELSE IF J.err # "" THEN J
                  ELSE Note(J, <<"body", "if", Len(C.i.log), C.i.env, J.env>>)
         [] st[1] = "while" ->
               LET J == Visit("execute_loop", <<st, id>>, [I EXCEPT !.loops = Append(@, id)])
               IN [J EXCEPT !.loops = I.loops]
         [] st[1] = "for" ->
               LET P == [I EXCEPT !.env = push_scope(@), !.loops = Append(@, id)]
                   N == IF st[2] = <<>> THEN P ELSE Visit("execute_stmt", <<st[2]>>, P)
                   J == Visit("execute_loop", <<st, id>>, N)
               IN IF N.err # "" THEN N
                  ELSE IF J.err # "" THEN J
                  ELSE [J EXCEPT !.env = pop_scope(@), !.loops = I.loops]
         [] st[1] = "return" ->
               LET V == IF st[2] = <<>> THEN Val(NilV, I) ELSE Visit("eval_expr", <<st[2]>>, I)
               IN IF V.i.err # "" THEN V.i
                  ELSE Note([V.i EXCEPT !.control_flow = ControlFlow("Return", V.v)],
                            <<"return", I.calls, V.v>>)
         [] st[1] = "break" -> [I EXCEPT !.control_flow = ControlFlow("Break", NilV)]
         [] st[1] = "continue" -> [I EXCEPT !.control_flow = ControlFlow("Continue", NilV)]
         [] st[1] = "block" ->
               LET J == Visit("execute_stmts", <<st[2], 1, {"Return", "Break", "Continue"}>>,
                              [I EXCEPT !.env = push_scope(@)])
               IN IF J.err # "" THEN J
                  ELSE Note([J EXCEPT !.env = pop_scope(@)],
                            <<"body", "block", Len(I.log), I.env, pop_scope(J.env)>>)

\* ---------------------------------------------------------------- the type checker
\* TypeChecker::new: the types of the builtins
NewTypeChecker ==
    [env |-> <<Field("print", <<"Function", <<<<"Nil">>>>, <<"Nil">>>>)>>,
     current_function_return_type |-> <<>>,
     loaded_modules |-> {}, err |-> "", log |-> <<>>, steps |-> 0]

\* TypeChecker::types_compatible
RECURSIVE types_compatible(_, _)
types_compatible(expected, actual) ==
    IF expected[1] = "Pointer" /\ actual[1] = "Pointer"
    THEN types_compatible(expected[2], actual[2])
    ELSE expected[1] = actual[1]


\* the statement loops of the checker: they stop at the first error only
check_stmts(statements, i, C) ==
    IF i > Len(statements) \/ C.err # "" THEN C
    ELSE Visit("check_stmts", <<statements, i + 1>>, Visit("check_stmt", <<statements[i]>>, C))

\* TypeChecker::check_expr
check_expr(e, C) ==
    CASE e[1] = "lit" -> Val(<<e[2].tag>>, C)
      [] e[1] = "var" ->
            IF SetIdx(C.env, e[2]) = 0 THEN Val(<<"Nil">>, Raise(C, "Undefined variable"))
            ELSE Val(C.env[SetIdx(C.env, e[2])][e[2]], C)
      [] e[1] = "binary" ->
            LET L == Visit("check_expr", <<e[3]>>, C)
                R == Visit("check_expr", <<e[4]>>, L.i)
                op == e[2]
                numeric(t) == t[1] \in {"Int", "Float"}
            IN IF L.i.err # "" THEN L
               ELSE IF R.i.err # "" THEN R
               ELSE IF L.v[1] = "Nil" \/ R.v[1] = "Nil"
               THEN Val(IF op \in {"==", "<"} THEN <<"Bool">> ELSE <<"Nil">>, R.i)
               ELSE (CASE op = "+" ->
                           IF types_compatible(L.v, R.v) /\ L.v[1] \in {"Int", "Float", "String"}
                           THEN Val(L.v, R.i)
                           ELSE Val(<<"Nil">>, Raise(R.i, "Cannot add"))
                      [] op \in {"-", "/", "%"} ->
                           IF numeric(L.v) /\ numeric(R.v) /\ types_compatible(L.v, R.v)
                           THEN Val(L.v, R.i)
                           ELSE Val(<<"Nil">>, Raise(R.i, "Cannot apply"))
                      [] op = "==" -> Val(<<"Bool">>, R.i)
                      [] op = "<" ->
                           IF numeric(L.v) /\ numeric(R.v) THEN Val(<<"Bool">>, R.i)
                           ELSE Val(<<"Nil">>, Raise(R.i, "Cannot compare")))
      [] e[1] = "unary" ->
            LET V == Visit("check_expr", <<e[3]>>, C)
            IN IF V.i.err # "" THEN V
               ELSE (CASE e[2] = "-" ->
                           IF V.v[1] \in {"Int", "Float"} THEN V
                           ELSE Val(<<"Nil">>, Raise(V.i, "Cannot negate"))
                      [] e[2] = "not" -> Val(<<"Bool">>, V.i)
                      [] e[2] = "#" ->
                           IF V.v[1] \in {"String", "Table"} THEN Val(<<"Int">>, V.i)
                           ELSE Val(<<"Nil">>, Raise(V.i, "Cannot get length"))
                      [] e[2] = "&" -> Val(<<"Pointer", V.v>>, V.i)
                      [] e[2] = "*" ->
                           IF V.v[1] = "Pointer" THEN Val(V.v[2], V.i)
                           ELSE Val(<<"Nil">>, Raise(V.i, "Cannot dereference")))
      [] e[1] = "logical" ->
            LET L == Visit("check_expr", <<e[3]>>, C)
                R == Visit("check_expr", <<e[4]>>, L.i)
            IN IF L.i.err # "" THEN L
               ELSE IF R.i.err # "" THEN R
               ELSE Val(<<"Bool">>, R.i)
      [] e[1] = "assign" ->
            LET V == Visit("check_expr", <<e[3]>>, C)
                var_type == C.env[SetIdx(C.env, e[2])][e[2]]
            IN IF SetIdx(C.env, e[2]) = 0 THEN Val(<<"Nil">>, Raise(C, "Undefined variable"))
               ELSE IF V.i.err # "" THEN V
               ELSE IF V.v[1] # "Nil" /\ ~types_compatible(var_type, V.v)
               THEN Val(<<"Nil">>, Raise(V.i, "Type mismatch"))
               ELSE V
      [] e[1] = "call" ->
            LET F == Visit("check_expr", <<e[2]>>, C)
                params == F.v[2]
                is_builtin == Len(params) = 1 /\ params[1] = <<"Nil">>
                RECURSIVE arguments(_, _)
                arguments(n, A) ==
                    IF n > Len(e[3]) \/ A.err # "" THEN A
                    ELSE LET V == Visit("check_expr", <<e[3][n]>>, A)
                         IN IF V.i.err # "" THEN V.i
                            ELSE IF /\ ~is_builtin
                                    /\ V.v[1] # "Nil" /\ params[n][1] # "Nil"
                                    /\ ~types_compatible(params[n], V.v)
                            THEN Raise(V.i, "Argument type mismatch")
                            ELSE arguments(n + 1, V.i)
            IN IF F.i.err # "" THEN F
               ELSE IF F.v[1] # "Function" THEN Val(<<"Nil">>, F.i)
               ELSE IF ~is_builtin /\ Len(e[3]) # Len(params)
               THEN Val(<<"Nil">>, Raise(F.i, "Function expects arguments"))
               ELSE Val(F.v[3], arguments(1, F.i))
      [] e[1] = "table" ->
            LET RECURSIVE fields(_, _)
                fields(n, A) ==
                    IF n > Len(e[2]) \/ A.err # "" THEN A
                    ELSE fields(n + 1, Visit("check_expr", <<e[2][n][2]>>, A).i)
            IN Val(<<"Table">>, fields(1, C))

\* TypeChecker::check_stmt, with TypeChecker::import_module
check_stmt(st, C) ==
    LET scoped(statements, D) ==
            LET J == Visit("check_stmts", <<statements, 1>>, [D EXCEPT !.env = push_scope(@)])
            IN IF J.err # "" THEN J ELSE [J EXCEPT !.env = pop_scope(@)]
    IN CASE st[1] = "import" ->
               IF st[2] \in C.loaded_modules THEN C
               ELSE IF st[2] \notin DOMAIN source.modules THEN Raise(C, "Module not found")
               ELSE LET T == Tick(Note(C, <<"load", st[2]>>))
                        J == Visit("check_stmts", <<parse(source.modules[st[2]]), 1>>, T)
                    IN IF J.err # "" THEN J
                       ELSE [J EXCEPT !.loaded_modules = @ \cup {st[2]}]
         [] st[1] = "local" ->
               LET V == IF st[4] = <<>> THEN Val(<<>>, C) ELSE Visit("check_expr", <<st[4]>>, C)
               IN IF V.i.err # "" THEN V.i
                  ELSE IF st[3] # <<>> /\ V.v # <<>> /\ ~types_compatible(st[3], V.v)
                  THEN Raise(V.i, "Type mismatch")
                  ELSE IF st[3] = <<>> /\ V.v = <<>>
                  THEN Raise(V.i, "Variable must have a type annotation or an initializer")
                  ELSE [V.i EXCEPT !.env = define(@, st[2], IF st[3] # <<>> THEN st[3] ELSE V.v)]
         [] st[1] = "fn" ->
               LET F == <<"Function", [n \in 1..Len(st[3]) |-> st[3][n][2]],
                          IF st[4] = <<>> THEN <<"Nil">> ELSE st[4]>>
                   D == [C EXCEPT !.env = define(@, st[2], F)]
                   P == [D EXCEPT !.env = BindParams(push_scope(@),
                                              [n \in 1..Len(st[3]) |-> st[3][n][1]],
                                              [n \in 1..Len(st[3]) |-> st[3][n][2]], 1),
                                  !.current_function_return_type = st[4]]
                   J == Visit("check_stmts", <<st[5], 1>>, P)
               IN IF J.err # "" THEN J
                  ELSE [J EXCEPT !.current_function_return_type = C.current_function_return_type,
                                 !.env = pop_scope(@)]
         [] st[1] = "expr" -> Visit("check_expr", <<st[2]>>, C).i
         [] st[1] = "if" ->
               LET V == Visit("check_expr", <<st[2]>>, C)
                   T == scoped(st[3], V.i)
               IN IF V.i.err # "" THEN V.i
                  ELSE IF T.err # "" THEN T
                  ELSE scoped(st[4], T)
         [] st[1] = "while" ->
               LET V == Visit("check_expr", <<st[2]>>, C)
               IN IF V.i.err # "" THEN V.i ELSE scoped(st[3], V.i)
         [] st[1] = "for" ->
               LET P == [C EXCEPT !.env = push_scope(@)]
                   N == IF st[2] = <<>> THEN P ELSE Visit("check_stmt", <<st[2]>>, P)
                   V == IF st[3] = <<>> \/ N.err # "" THEN N ELSE Visit("check_expr", <<st[3]>>,
                                                                        N).i
                   S == IF st[4] = <<>> \/ V.err # "" THEN V ELSE Visit("check_expr", <<st[4]>>,
                                                                        V).i
                   J == Visit("check_stmts", <<st[5], 1>>, S)
               IN IF J.err # "" THEN J ELSE [J EXCEPT !.env = pop_scope(@)]
         [] st[1] = "return" ->
               LET V == IF st[2] = <<>> THEN Val(<<"Nil">>, C) ELSE Visit("check_expr", <<st[2]>>,
                                                                          C)
                   expected == C.current_function_return_type
               IN IF V.i.err # "" THEN V.i
                  ELSE IF expected # <<>> /\ V.v[1] # "Nil" /\ ~types_compatible(expected, V.v)
                  THEN Raise(V.i, "Return type mismatch")
                  ELSE V.i
         [] st[1] \in {"break", "continue"} -> C
         [] st[1] = "block" -> scoped(st[2], C)

\* the method calls of the evaluator and of the type checker
Visit(method, a, self) ==
    CASE method = "execute_stmts" -> execute_stmts(a[1], a[2], self, a[3])
      [] method = "execute_stmt" -> execute_stmt(a[1], self)
      [] method = "execute_loop" -> execute_loop(a[1], a[2], self)
      [] method = "eval_expr" -> eval_expr(a[1], self)
      [] method = "call_function" -> call_function(a[1], a[2], self)
      [] method = "check_stmts" -> check_stmts(a[1], a[2], self)
      [] method = "check_stmt" -> check_stmt(a[1], self)
      [] method = "check_expr" -> check_expr(a[1], self)

\* ---------------------------------------------------------------- run
\* Interpreter::interpret on a fresh Interpreter
interpret(statements) == execute_stmts(statements, 1, NewInterpreter, {"Return"})

\* the programs: `main` is the text given to run, `modules` the files it can import
RunSources ==
    LET lit(n) == <<"lit", IntV(n)>>
        nil == <<"lit", NilV>>
        true == <<"lit", BoolV(TRUE)>>
        var(x) == <<"var", x>>
        local(x, e) == <<"local", x, <<>>, e>>
        set(x, e) == <<"expr", <<"assign", x, e>>>>
        inc(x) == <<"assign", x, <<"binary", "+", var(x), lit(1)>>>>
        less(x, n) == <<"binary", "<", var(x), lit(n)>>
        is(x, n) == <<"binary", "==", var(x), lit(n)>>
        call(f) == <<"call", var(f), <<>>>>
        print(e) == <<"expr", <<"call", var("print"), <<e>>>>>>
        fn(f, body) == <<"fn", f, <<>>, <<>>, body>>
        if(c, body) == <<"if", c, body, <<>>>>
        for(x, n, body) == <<"for", local(x, lit(0)), less(x, n), inc(x), body>>
        \* a body of each kind around the same statements, after `local x = 1`
        inner == {<<local("x", lit(2))>>, <<local("y", lit(3))>>,
                  <<local("y", lit(3)), set("x", lit(4))>>}
        around(b) ==
            {<<<<"block", b>>>>,
             <<if(true, b)>>,
             <<<<"if", nil, <<>>, b>>>>,
             <<local("i", lit(0)), <<"while", less("i", 1), <<<<"expr", inc("i")>>>> \o b>>>>,
             <<for("i", 2, b)>>,
             <<fn("f", b), <<"expr", call("f")>>>>}
        bodies == {<<local("x", lit(1))>> \o m \o <<print(var("x"))>> :
                       m \in UNION {around(b) : b \in inner}}
        \* return, break and continue
        flows ==
            {<<<<"break">>, print(lit(1))>>,
             <<<<"break">>, <<"while", nil, <<>>>>, print(lit(1))>>,
             <<<<"continue">>, for("i", 2, <<print(var("i")), print(lit(9))>>)>>,
             <<<<"return", <<>>>>, print(lit(1))>>,
             <<fn("f", <<<<"break">>, print(lit(1)), <<"return", lit(5)>>, print(lit(2))>>),
               print(call("f"))>>,
             <<fn("f", <<for("i", 2, <<<<"while", true, <<<<"block", <<<<"return", lit(7)>>>>>>>>>>>>)>>),
               print(call("f")), print(lit(8))>>,
             <<fn("f", <<if(true, <<<<"continue">>>>)>>), print(call("f"))>>,
             <<fn("g", <<<<"break">>>>),
               for("i", 2, <<<<"expr", call("g")>>, print(var("i"))>>)>>,
             <<fn("g", <<<<"continue">>>>), local("i", lit(0)),
               <<"while", less("i", 2), <<<<"expr", inc("i")>>, <<"expr", call("g")>>,
                                          print(var("i"))>>>>>>,
             <<for("i", 2, <<for("j", 2, <<if(is("j", 1), <<<<"break">>>>), print(var("j"))>>),
                             print(lit(5))>>)>>,
             <<for("i", 3, <<if(is("i", 1), <<<<"continue">>>>), print(var("i"))>>)>>,
             <<local("i", lit(0)),
               <<"while", less("i", 3), <<<<"expr", inc("i")>>,
                                          <<"block", <<if(is("i", 2), <<<<"continue">>>>)>>>>,
                                          print(var("i"))>>>>>>,
             <<local("i", lit(0)),
               <<"while", true, <<<<"expr", inc("i")>>, if(is("i", 2), <<<<"break">>>>),
                                  print(var("i"))>>>>,
               print(lit(6))>>}
        \* declarations and assignments over the annotations and the types of values
        types == {<<>>, <<"Int">>, <<"String">>, <<"Nil">>, <<"Table">>}
        inits == {<<>>, lit(1), nil, <<"lit", Value("String", "s")>>, <<"table", <<>>>>}
        typed == {<<<<"local", "x", t, e>>, set("x", v), print(var("x"))>> :
                      t \in types, e \in inits, v \in {lit(1), nil}}
        \* table constructors: entry n holds the value 10 * n
        keys == {<<>>, <<"id", "k">>, <<"expr", <<"lit", Value("String", "s")>>>>}
        entries(ks) == [n \in 1..Len(ks) |-> <<ks[n], lit(10 * n)>>]
        tables == {<<local("t", <<"entries", entries(ks)>>), print(<<"unary", "#", var("t")>>)>> :
                       ks \in UNION {[1..n -> keys] : n \in 0..3}}
        \* modules
        files == [a |-> <<print(lit(1))>>,
                  b |-> <<<<"import", "b">>, print(lit(2))>>,
                  c |-> <<<<"import", "d">>, print(lit(3))>>,
                  d |-> <<<<"import", "c">>, print(lit(4))>>,
                  e |-> <<<<"return", lit(1)>>, print(lit(5))>>,
                  f |-> <<<<"import", "a">>, print(lit(6))>>]
        imports == {<<<<"import", "a">>, <<"import", "a">>, print(lit(0))>>,
                    <<<<"import", "f">>, <<"import", "a">>, <<"import", "f">>>>,
                    <<<<"import", "b">>>>,
                    <<<<"import", "c">>>>,
                    <<<<"import", "e">>, print(lit(0))>>,
                    <<fn("f", <<<<"import", "a">>>>), <<"expr", call("f")>>, <<"import", "a">>>>,
                    <<<<"import", "z">>>>}
        \* quotients and remainders, also by zero
        neg(n) == <<"unary", "-", lit(n)>>
        arith == {<<print(<<"binary", op, a, lit(b)>>)>> :
                      op \in {"/", "%"}, a \in {lit(0), lit(7), neg(7)}, b \in {0, 2}}
        \* a value of each kind as a condition and as an operand of and, or, not
        kinds == {nil, <<"lit", BoolV(FALSE)>>, true, lit(0), <<"lit", Value("Float", 0)>>,
                  <<"lit", Value("String", "")>>, <<"table", <<>>>>, var("f"),
                  <<"unary", "&", lit(1)>>}
        once == <<print(lit(1)), <<"break">>>>
        uses(e) ==
            {<<<<"if", e, <<print(lit(1))>>, <<print(lit(0))>>>>>>,
             <<<<"while", e, once>>, print(lit(2))>>,
             <<<<"for", <<>>, e, <<>>, once>>, print(lit(2))>>,
             <<print(<<"unary", "not", e>>)>>,
             <<print(<<"logical", "and", e, lit(1)>>)>>,
             <<print(<<"logical", "or", e, lit(1)>>)>>}
        truth == {<<fn("f", <<>>)>> \o u : u \in UNION {uses(e) : e \in kinds}}
        \* a for statement that fails in its initializer, condition, body, increment
        div0 == <<"binary", "/", lit(1), lit(0)>>
        forerr ==
            {<<<<"for", local("i", div0), less("i", 1), inc("i"), <<print(lit(1))>>>>>>,
             <<<<"for", local("i", lit(0)), <<"binary", "<", var("i"), div0>>, inc("i"),
                <<print(lit(1))>>>>>>,
             <<<<"for", local("i", lit(0)), less("i", 1), inc("i"), <<print(div0)>>>>>>,
             <<<<"for", local("i", lit(0)), less("i", 1), <<"assign", "i", div0>>,
                <<print(lit(1))>>>>>>}
        \* calls of a function of one or two parameters with zero to three arguments
        params == {<<<<"a", <<>>>>>>, <<<<"a", <<"Int">>>>>>,
                   <<<<"a", <<>>>>, <<"b", <<>>>>>>, <<<<"a", <<"Int">>>>, <<"b", <<"Int">>>>>>}
        arity == {<<<<"fn", "f", ps, <<>>, <<<<"return", lit(1)>>>>>>,
                    print(<<"call", var("f"), [n \in 1..k |-> lit(n)]>>)>> :
                      ps \in params, k \in 0..3}
    IN {[main |-> m, modules |-> <<>>] :
            m \in bodies \cup flows \cup typed \cup tables \cup arith \cup truth
                  \cup forerr \cup arity}
       \cup {[main |-> m, modules |-> files] : m \in imports}

InitRun ==
    /\ tasks = <<>> /\ ready_queue = <<>> /\ next_task_id = 0
    /\ evals = <<>> /\ stores = <<>> /\ writes = <<>> /\ rets = <<>>
    /\ awaited = {} /\ prog = <<>>
    /\ xpc = <<>> /\ xlocal = <<>> /\ locks = <<>>
    /\ source \in RunSources
    /\ phase = "parse"
    /\ lexer = <<>> /\ ast = <<>> /\ checker = <<>> /\ interp = <<>>

taskVars == <<tasks, ready_queue, next_task_id, evals, stores, writes, rets, awaited, prog,
              xpc, xlocal, locks>>

\* run, phase 2: Parser::parse
Parse ==
    /\ phase = "parse"
    /\ ast' = parse(source.main)
    /\ phase' = "check"
    /\ UNCHANGED <<taskVars, source, lexer, checker, interp>>

\* run: `type_checker.check(&ast)?` returns the error of the checker
AfterCheckIgnored(c) == "interpret"
AfterCheck(c) == IF c.err = "" THEN "interpret" ELSE "error"

\* run, phase 3: TypeChecker::check
TypeCheck ==
    /\ phase = "check"
    /\ checker' = check_stmts(ast, 1, NewTypeChecker)
    /\ phase' = AfterCheck(checker')
    /\ UNCHANGED <<taskVars, source, lexer, ast, interp>>

\* run, phase 5: Interpreter::interpret; a panic of the evaluator ends the
\* process and run returns nothing
Interpret ==
    /\ phase = "interpret"
    /\ interp' = interpret(ast)
    /\ phase' = IF interp'.err = "" THEN "done"
                 ELSE IF interp'.err = "panic" THEN "panic" ELSE "error"
    /\ UNCHANGED <<taskVars, source, lexer, ast, checker>>

NextRun == Parse \/ TypeCheck \/ Interpret

SpecRun == InitRun /\ [][NextRun]_vars

\* ---------------------------------------------------------------- lexer
\* Lexer (lexer/scanner.rs).  The source is a sequence of characters, each a
\* string of length one; `current` and `start` count characters from 0 as in
\* the code.  status: "scanning" in the loop of tokenize, "done" after
\* Ok(tokens), "error" after Err(LexerError), "panic" after a panic of the
\* thread.  overflow_checks is the build profile: with the checks (dev) a
\* usize subtraction below zero panics, without them (release) it wraps; a
\* negative column of a token stands for the wrapped value 2^64 + column.
MaxSourceLen == 3

\* characters with a role in scan_token; nul is the '\0' of peek at the end
Ch ==
    [quote |-> "\"", backslash |-> "\\", newline |-> "\n", tab |-> "\t", cr |-> "\r",
     nul |-> "NUL"]

\* Lexer::advance: `self.source[self.current]` is indexed without a test
advance(L) ==
    IF L.status # "scanning" THEN L
    ELSE IF L.current >= Len(L.source) THEN [L EXCEPT !.status = "panic"]
    ELSE [L EXCEPT !.current = @ + 1, !.column = @ + 1]

\* Lexer::scan_token with scan_string, scan_number, scan_identifier,
\* scan_multiline_comment, add_token, match_char, peek, peek_next, error
scan_token(L0) ==
    LET digits == {"0", "1", "2", "3", "4", "5", "6", "7", "8", "9"}
        letters == {"a", "b", "c", "i", "l", "n", "o", "p", "r", "t", "_"}
        char(s) == <<s>>
        word(a, b, c, d, e) == <<a, b, c, d, e>>
        keywords == {word("l", "o", "c", "a", "l"), <<"n", "i", "l">>, <<"n", "o", "t">>,
                     <<"i", "n", "t">>, <<"o", "r">>}
        single == [c \in {"(", ")", "{", "}", "[", "]", ",", ".", ";", "+", "*", "%", "#"} |->
                      CASE c = "(" -> "LeftParen" [] c = ")" -> "RightParen"
                        [] c = "{" -> "LeftBrace" [] c = "}" -> "RightBrace"
                        [] c = "[" -> "LeftBracket" [] c = "]" -> "RightBracket"
                        [] c = "," -> "Comma" [] c = "." -> "Dot" [] c = ";" -> "Semicolon"
                        [] c = "+" -> "Plus" [] c = "*" -> "Star" [] c = "%" -> "Percent"
                        [] c = "#" -> "Hash"]
        \* first character, second character if matched, token with, token without
        double == {<<"-", ">", "Arrow", "Minus">>, <<"=", "=", "Equal", "Assign">>,
                   <<"<", "=", "LessEqual", "Less">>, <<">", "=", "GreaterEqual", "Greater">>,
                   <<":", "=", "ColonAssign", "Colon">>}
        escapes == [c \in {"n", "t", "r", Ch.backslash, Ch.quote} |->
                       CASE c = "n" -> Ch.newline [] c = "t" -> Ch.tab [] c = "r" -> Ch.cr
                         [] OTHER -> c]
        is_at_end(L) == L.current >= Len(L.source)
        peek(L) == IF is_at_end(L) THEN Ch.nul ELSE L.source[L.current + 1]
        peek_next(L) ==
            IF L.current + 1 >= Len(L.source) THEN Ch.nul ELSE L.source[L.current + 2]
        error(L, message) == [L EXCEPT !.status = "error", !.message = message]
        match_char(L, expected) == ~is_at_end(L) /\ L.source[L.current + 1] = expected
        matched(L) == [L EXCEPT !.current = @ + 1, !.column = @ + 1]
        newline(L) == [L EXCEPT !.line = @ + 1, !.column = 1]
        lexeme(L) == SubSeq(L.source, L.start + 1, L.current)
        add_token(L, token_type) ==
            IF L.status # "scanning" THEN L
            ELSE IF L.column < L.current - L.start /\ L.overflow_checks
            THEN [L EXCEPT !.status = "panic"]
            ELSE [L EXCEPT !.tokens = Append(@,
                     [token_type |-> token_type, lexeme |-> lexeme(L), line |-> L.line,
                      column |-> L.column - (L.current - L.start)])]
        RECURSIVE scan_string(_, _), while(_, _), integer(_, _), scan_multiline_comment(_, _)
        scan_string(L, value) ==
            IF L.status # "scanning" THEN L
            ELSE IF peek(L) = Ch.quote \/ is_at_end(L)
            THEN IF is_at_end(L) THEN error(L, "Unterminated string")
                 ELSE add_token(advance(L), <<"Literal", "String", value>>)
            ELSE LET L1 == IF peek(L) = Ch.newline THEN newline(L) ELSE L
                 IN IF peek(L1) = Ch.backslash
                    THEN LET L2 == advance(L1)
                             L3 == advance(L2)
                         IN IF L3.status # "scanning" THEN L3
                            ELSE IF peek(L2) \in DOMAIN escapes
                            THEN scan_string(L3, Append(value, escapes[peek(L2)]))
                            ELSE error(L3, "Invalid escape sequence")
                    ELSE scan_string(advance(L1), Append(value, peek(L1)))
        \* `while <peek in class> { self.advance(); }`
        while(L, class) == IF peek(L) \in class THEN while(advance(L), class) ELSE L
        integer(s, n) == IF n = 0 THEN 0 ELSE 10 * integer(s, n - 1) + (CHOOSE d \in 0..9 : ToString(d) = s[n])
        scan_number(L) ==
            LET L1 == while(L, digits)
                is_float == peek(L1) = "." /\ peek_next(L1) \in digits
                L2 == IF is_float THEN while(advance(L1), digits) ELSE L1
            IN add_token(L2, IF is_float THEN <<"Literal", "Float", lexeme(L2)>>
                             ELSE <<"Literal", "Integer", integer(lexeme(L2), Len(lexeme(L2)))>>)
        scan_identifier(L) ==
            LET L1 == while(L, letters \cup digits)
            IN add_token(L1, IF lexeme(L1) \in keywords THEN <<"Keyword", lexeme(L1)>>
                             ELSE <<"Identifier">>)
        scan_multiline_comment(L, depth) ==
            IF ~(depth > 0 /\ ~is_at_end(L))
            THEN IF depth > 0 THEN error(L, "Unterminated multi-line comment") ELSE L
            ELSE IF peek(L) = "/" /\ peek_next(L) = "*"
            THEN scan_multiline_comment(advance(advance(L)), depth + 1)
            ELSE IF peek(L) = "*" /\ peek_next(L) = "/"
            THEN scan_multiline_comment(advance(advance(L)), depth - 1)
            ELSE scan_multiline_comment(
                     advance(IF peek(L) = Ch.newline THEN newline(L) ELSE L), depth)
        c == peek(L0)
        L == advance(L0)
    IN CASE L.status # "scanning" -> L
         [] c \in {" ", Ch.cr, Ch.tab} -> L
         [] c = Ch.newline -> newline(L)
         [] c \in DOMAIN single -> add_token(L, <<single[c]>>)
         [] \E d \in double : d[1] = c ->
                LET d == CHOOSE d \in double : d[1] = c
                IN IF match_char(L, d[2]) THEN add_token(matched(L), <<d[3]>>)
                   ELSE add_token(L, <<d[4]>>)
         [] c = "!" ->
                IF match_char(L, "=") THEN add_token(matched(L), <<"NotEqual">>)
                ELSE error(L, "Unexpected character '!'. Did you mean '!='?")
         [] c = "/" ->
                IF match_char(L, "/") THEN while(matched(L), (letters \cup digits \cup
                       {" ", "/", "*", "&", "=", "(", ")", Ch.quote, Ch.backslash}))
                ELSE IF match_char(L, "*") THEN scan_multiline_comment(matched(L), 1)
                ELSE add_token(L, <<"Slash">>)
         [] c = Ch.quote -> scan_string(L, <<>>)
         [] c \in digits -> scan_number(L)
         [] c \in letters -> scan_identifier(L)
         [] OTHER -> error(L, "Unexpected character")

\* the source texts of the lexer: every text of up to MaxSourceLen characters
\* over a small alphabet, and some longer ones
LexSources ==
    LET alphabet == {Ch.quote, Ch.backslash, Ch.newline, "a", "n", "1", "&", " ", "="}
        pointer == <<"l", "o", "c", "a", "l", " ", "p", " ", "=", " ", "&", "1", "0", Ch.newline,
                     "p", "r", "i", "n", "t", "(", "*", "p", ")">>
    IN UNION {[1..n -> alphabet] : n \in 0..MaxSourceLen}
       \cup {pointer,
             <<Ch.quote, "a", "b", Ch.newline, Ch.quote>>,
             <<Ch.quote, "a", "b", "c">>,
             <<"/", "*", "a", Ch.newline, "*", "/", "a", "=", "=", "1", ".", "0">>,
             <<"/", "/", "a", Ch.newline, "!", "=", "!">>}

\* Lexer::new, for either build profile
InitLex ==
    /\ tasks = <<>> /\ ready_queue = <<>> /\ next_task_id = 0
    /\ evals = <<>> /\ stores = <<>> /\ writes = <<>> /\ rets = <<>>
    /\ awaited = {} /\ prog = <<>>
    /\ xpc = <<>> /\ xlocal = <<>> /\ locks = <<>>
    /\ source = <<>> /\ phase = "lex"
    /\ ast = <<>> /\ checker = <<>> /\ interp = <<>>
    /\ \E text \in LexSources, checks \in BOOLEAN :
          lexer = [source |-> text, tokens |-> <<>>, start |-> 0, current |-> 0,
                   line |-> 1, column |-> 1, status |-> "scanning", message |-> "",
                   overflow_checks |-> checks]

\* tokenize: one iteration of `while !self.is_at_end()`
ScanToken ==
    /\ phase = "lex" /\ lexer.status = "scanning"
    /\ lexer.current < Len(lexer.source)
    /\ lexer' = scan_token([lexer EXCEPT !.start = lexer.current])
    /\ UNCHANGED <<taskVars, source, phase, ast, checker, interp>>

\* tokenize: the Eof token at current_location, Ok(tokens)
PushEof ==
    /\ phase = "lex" /\ lexer.status = "scanning"
    /\ lexer.current >= Len(lexer.source)
    /\ lexer' = [lexer EXCEPT !.status = "done",
                              !.tokens = Append(@, [token_type |-> <<"Eof">>, lexeme |-> <<>>,
                                                    line |-> lexer.line,
                                                    column |-> lexer.column])]
    /\ UNCHANGED <<taskVars, source, phase, ast, checker, interp>>

NextLex == ScanToken \/ PushEof

SpecLex == InitLex /\ [][NextLex]_vars

\* ================================================================ the three locks
\* All the methods of AsyncExecutor, called by concurrent threads; a caller
\* that finds a lock taken waits at its position until the lock is free.

\* all_tasks_complete / clear: `self.tasks.lock()`, then `self.ready_queue.lock()`
QueueFirst(op) == IF op = "clear" THEN <<"ready_queue", "tasks">> ELSE <<"tasks", "ready_queue">>
LockOrder(op) == <<"tasks", "ready_queue">>

\* spawn / spawn_function is called
CallSpawn(c, op, fn) ==
    /\ xpc[c] = "idle"
    /\ next_task_id + Cardinality({d \in Callers : xpc[d] = "lock_id"}) < MaxSpawns
    /\ xpc' = [xpc EXCEPT ![c] = "lock_id"]
    /\ xlocal' = [xlocal EXCEPT ![c] = [Idle EXCEPT !.op = op, !.fn = fn]]
    /\ UNCHANGED <<tasks, ready_queue, next_task_id, locks, joinVars>>

\* spawn / spawn_function: self.next_task_id.lock()
LockId(c) ==
    /\ xpc[c] = "lock_id" /\ locks.next_task_id = 0
    /\ locks' = [locks EXCEPT !.next_task_id = c]
    /\ xpc' = [xpc EXCEPT ![c] = "take_id"]
    /\ UNCHANGED <<tasks, ready_queue, next_task_id, xlocal, joinVars>>

\* all_tasks_complete / clear is called
CallBoth(c, op) ==
    /\ xpc[c] = "idle"
    /\ xpc' = [xpc EXCEPT ![c] = "first"]
    /\ xlocal' = [xlocal EXCEPT ![c] = [Idle EXCEPT !.op = op]]
    /\ UNCHANGED <<tasks, ready_queue, next_task_id, locks, joinVars>>

\* all_tasks_complete / clear: the n-th of its two lock() calls
LockBoth(c, n) ==
    /\ xpc[c] = (IF n = 1 THEN "first" ELSE "second")
    /\ locks[LockOrder(xlocal[c].op)[n]] = 0
    /\ locks' = [locks EXCEPT ![LockOrder(xlocal[c].op)[n]] = c]
    /\ xpc' = [xpc EXCEPT ![c] = IF n = 1 THEN "second" ELSE "in_both"]
    /\ UNCHANGED <<tasks, ready_queue, next_task_id, xlocal, joinVars>>

\* all_tasks_complete: queue.is_empty() && tasks.iter().all(..)
AllTasksComplete(c) ==
    /\ xpc[c] = "in_both" /\ xlocal[c].op = "all_tasks_complete"
    /\ Return(c)
    /\ UNCHANGED <<tasks, ready_queue, next_task_id, joinVars>>

\* clear: tasks.clear(); queue.clear()
Clear(c) ==
    /\ xpc[c] = "in_both" /\ xlocal[c].op = "clear"
    /\ tasks' = <<>>
    /\ ready_queue' = <<>>
    /\ Return(c)
    /\ UNCHANGED <<next_task_id, joinVars>>

\* a step of caller c inside a method: taking a lock or working under one
Inside(c) ==
    \/ LockId(c) \/ TakeId(c) \/ LockTasks(c) \/ PushTask(c) \/ LockQueue(c) \/ PushQueue(c)
    \/ GetTask(c) \/ UpdateTaskState(c) \/ PopQueue(c)
    \/ LockBoth(c, 1) \/ LockBoth(c, 2) \/ AllTasksComplete(c) \/ Clear(c)

NextLocks ==
    \/ \E c \in Callers : CallSpawn(c, "spawn", "f")
    \/ \E c \in Callers : CallSpawn(c, "spawn_function", "f")
    \/ \E c \in Callers : Call(c, "get_task", 0, Pending)
    \/ \E c \in Callers : \E st \in ExecStates : Call(c, "update_task_state", 0, st)
    \/ \E c \in Callers : Call(c, "get_next_ready_task", 0, Pending)
    \/ \E c \in Callers : CallBoth(c, "all_tasks_complete")
    \/ \E c \in Callers : CallBoth(c, "clear")
    \/ \E c \in Callers : Inside(c)

SpecLocks == InitExec /\ [][NextLocks]_vars

\* fair scheduling: a caller inside a method goes on, and a caller waiting for
\* a lock that is free again and again gets it
FairLocks == SpecLocks /\ \A c \in Callers : SF_vars(Inside(c))

\* ---------------------------------------------------------------- claims on run
\* what the evaluator of this run has executed so far
Log == IF phase = "done" \/ (phase = "error" /\ checker.err = "") THEN interp.log ELSE <<>>
Events(tag) == {k \in 1..Len(Log) : Log[k][1] = tag}
\* the last break or continue statement executed before event k (0: none)
Setter(k) ==
    LET S == {j \in 1..(k - 1) : Log[j][1] = "stmt" /\ Log[j][2] \in {"break", "continue"}}
    IN IF S = {} THEN 0 ELSE CHOOSE j \in S : \A i \in S : i <= j

\* C11: scope discipline: when a brace-delimited body (block, if/else branch,
\* while body, for body, function body) has exited, the scope stack is the one
\* of before the body, with the same names in every scope (a name declared
\* inside is not visible afterwards), and a name that the body declared and
\* did not assign has the value it had before the body.
C11_ScopeDiscipline ==
    \A k \in Events("body") :
        LET before == Log[k][4]
            after == Log[k][5]
            inside == (Log[k][3] + 1)..(k - 1)
        IN /\ Len(after) = Len(before)
           /\ \A n \in 1..Len(before) : DOMAIN after[n] = DOMAIN before[n]
           /\ \A j \in inside :
                 /\ Log[j][1] = "stmt" /\ Log[j][2] \in {"local", "fn"}
                 /\ SetIdx(before, Log[j][4]) # 0
                 /\ ~\E a \in inside : Log[a][1] = "assign" /\ Log[a][2] = Log[j][4]
                 => env_get(after, Log[j][4]) = env_get(before, Log[j][4])

\* C12: in every statement list the evaluator runs, a statement is followed by
\* the next statement of its list only if it left the control-flow register
\* in the state None.
C12_ShortCircuit == \A k \in Events("next") : Log[k][2] = "None"

C14_LoopControl ==
    /\ \A c \in Events("consumed") :
          LET id == Log[c][2]
              after == {j \in (c + 1)..Len(Log) :
                           Log[j][1] \in {"cond", "step", "loopend"} /\ Log[j][2] = id}
              next == CHOOSE j \in after : \A i \in after : j <= i
          IN /\ Setter(c) # 0 /\ Log[Setter(c)][5] = id
             /\ Log[c][3] = "Continue" /\ after # {} =>
                   Log[next][1] = IF Log[id][2] = "for" THEN "step" ELSE "cond"
    /\ \A k \in Events("loopend") : Log[k][4] = "None"

\* C15: modules are loaded once: the statements of an import path are executed
\* (and checked) at most once, and every import returns.
C15_LoadOnce ==
    /\ \A j, k \in Events("load") : Log[j][2] = Log[k][2] => j = k
    /\ phase = "error" => checker.err # "diverges"
    /\ phase = "error" /\ checker.err = "" => interp.err # "diverges"

\* C16: (as claimed) every program that the evaluator runs to completion
\* without a runtime error is accepted by the type checker.
C16_Monotone ==
    phase \in {"check", "interpret", "done", "error"} /\ interpret(ast).err = ""
    => check_stmts(ast, 1, NewTypeChecker).err = ""
\* C16: (amended) every program that run evaluates has been accepted by the
\* type checker: run evaluates nothing of a program the checker rejects.
C16_RunChecksFirst ==
    phase \in {"interpret", "done"} \/ DOMAIN interp # {}
    => checker.err = ""
\* run has checked and evaluated a program that prints
C16_Witness == phase = "done" /\ checker.err = "" /\ interp.out # <<>>

\* C17: gradual typing: a declaration `local x: T = e` whose initializer has
\* type Nil is accepted for every annotation T, and an assignment to a variable
\* whose recorded type is Nil is accepted for every type of value.
C17_NilMatchesAny ==
    phase \in {"interpret", "done", "error"} /\ ast[1][1] = "local" =>
        LET declared == check_stmt(ast[1], NewTypeChecker)
            nil_init == ast[1][4] # <<>> /\ ast[1][4][1] = "lit" /\ ast[1][4][2].tag = "Nil"
        IN /\ ast[1][3] # <<>> /\ nil_init => declared.err = ""
           /\ /\ declared.err = ""
              /\ declared.env[1][ast[1][2]] = <<"Nil">>
              /\ Len(ast) > 1
              /\ ast[2][1] = "expr" /\ ast[2][2][1] = "assign" /\ ast[2][2][2] = ast[1][2]
              => check_stmt(ast[2], declared).err = ""

\* C18: in a table constructor the k-th entry without a key is stored under
\* the integer key k, and the length of the table is the number of such entries.
C18_PositionalKeys ==
    /\ phase = "done" /\ source.main[1][1] = "local"
    /\ source.main[1][4] # <<>> /\ source.main[1][4][1] = "entries"
    =>
        LET entries == source.main[1][4][2]
            positional == {n \in 1..Len(entries) : entries[n][1] = <<>>}
            t == env_get(interp.env, source.main[1][2]).v
        IN /\ Len(t.array) = Cardinality(positional)
           /\ \A n \in positional :
                 t.array[Cardinality({m \in positional : m <= n})] = IntV(10 * n)

\* ---------------------------------------------------------------- claims on the lexer
\* C19: tokenize is total: it returns tokens or an error for every source
\* text and never panics; and a text that is an unterminated string literal
\* (a quote, then characters other than quote and backslash, then possibly one
\* backslash at the end) yields the error "Unterminated string".
C19_TokenizeTotal ==
    phase = "lex" =>
        /\ lexer.status # "panic"
        /\ /\ lexer.status # "scanning"
           /\ Len(lexer.source) > 0 /\ lexer.source[1] = Ch.quote
           /\ \A n \in 2..Len(lexer.source) :
                 /\ lexer.source[n] # Ch.quote
                 /\ lexer.source[n] = Ch.backslash => n = Len(lexer.source)
           => lexer.status = "error" /\ lexer.message = "Unterminated string"

\* C20: the program `local p = &10  print(*p)` passes the lexer, the first of
\* the stages it has to pass to print 10.
C20_PointerProgram ==
    /\ phase = "lex"
    /\ Len(lexer.source) > 12 /\ SubSeq(lexer.source, 9, 13) = <<"=", " ", "&", "1", "0">>
    => lexer.status \in {"scanning", "done"}

\* C21: a zero divisor is a runtime error and never ends the process: `a / 0`
\* fails with "Division by zero", `a % 0` fails with a runtime error as well,
\* and the evaluator never aborts.
C21_ZeroDivisor ==
    LET e == source.main[1]
        by_zero == /\ Len(source.main) = 1 /\ e[1] = "expr" /\ e[2][1] = "call"
                   /\ Len(e[2][3]) = 1 /\ e[2][3][1][1] = "binary"
                   /\ e[2][3][1][2] \in {"/", "%"} /\ e[2][3][1][4] = <<"lit", IntV(0)>>
    IN /\ phase # "panic"
       /\ by_zero /\ DOMAIN interp # {} =>
              /\ phase = "error"
              /\ e[2][3][1][2] = "/" => interp.err = "Division by zero"

\* C22: a value is falsy exactly when it is Nil or Bool(false); the conditions
\* of if, while and for and the operators and, or and not all decide by that:
\* `if e` runs its else branch, `while e` and `for (; e;)` run no iteration,
\* `not e` is true, `e and 1` is e and `e or 1` is 1 exactly when e is falsy.
C22_Truthiness ==
    Len(ast) > 1 /\ ast[1][1] = "fn" /\ ast[1][5] = <<>> /\ DOMAIN interp # {} =>
        LET use == ast[2]
            e == CASE use[1] \in {"if", "while"} -> use[2]
                   [] use[1] = "for" -> use[3]
                   [] OTHER -> use[2][3][1][3]
            v == eval_expr(e, execute_stmt(ast[1], NewInterpreter)).v
            falsy == v.tag = "Nil" \/ (v.tag = "Bool" /\ v.v = 0)
            op == IF use[1] = "expr" THEN use[2][3][1][2] ELSE use[1]
        IN /\ phase = "done"
           /\ interp.out =
                 CASE op = "if" -> <<IntV(IF falsy THEN 0 ELSE 1)>>
                   [] op \in {"while", "for"} ->
                        IF falsy THEN <<IntV(2)>> ELSE <<IntV(1), IntV(2)>>
                   [] op = "not" -> <<BoolV(falsy)>>
                   [] op = "and" -> <<IF falsy THEN v ELSE IntV(1)>>
                   [] op = "or" -> <<IF falsy THEN IntV(1) ELSE v>>
\* `if 0 { print(1) } else { print(0) }` has run and printed 1
C22_Witness ==
    /\ phase = "done" /\ Len(ast) > 1 /\ ast[1][1] = "fn" /\ ast[1][5] = <<>>
    /\ ast[2][1] = "if" /\ ast[2][2] = <<"lit", IntV(0)>>
    /\ interp.out = <<IntV(1)>>

\* C23: a for statement leaves the scope stack at the depth it had before the
\* statement, however it ends: condition falsy, break, return, or a runtime
\* error in the initializer, the condition, the body or the increment.
C23_ForRestoresScopes ==
    source.main[1][1] = "for" /\ DOMAIN interp # {} =>
        Len(interp.env) = Len(NewInterpreter.env)

\* C25: the checker rejects a call of a declared function with a number of
\* arguments other than its number of parameters, annotated or not.
C25_ArityChecked ==
    /\ Len(ast) = 2 /\ ast[1][1] = "fn" /\ ast[2][1] = "expr" /\ ast[2][2][1] = "call"
    /\ Len(ast[2][2][3]) = 1 /\ ast[2][2][3][1][1] = "call"
    /\ DOMAIN checker # {} /\ checker.err = ""
    => Len(ast[2][2][3][1][3]) = Len(ast[1][3])

\* C26: every token has line >= 1 and column >= 1, and the column of a scanned
\* token is the column of its first character in the source text, also for
\* string literals that span lines and for tokens after a newline.
C26_TokenPositions ==
    [][Len(lexer'.tokens) > Len(lexer.tokens) =>
          LET t == lexer'.tokens[Len(lexer'.tokens)]
              newlines == {k \in 1..lexer.current : lexer.source[k] = Ch.newline}
              bol == IF newlines = {} THEN 0
                     ELSE CHOOSE k \in newlines : \A j \in newlines : j <= k
          IN /\ t.line >= 1 /\ t.column >= 1
             /\ t.token_type # <<"Eof">> => t.column = lexer.current + 1 - bol]_vars

\* C24: the critical sections of the executor never nest: no method takes one
\* of the three locks while it holds another, and no lock is held between two
\* calls, when a task body may run.
C24_NoNesting ==
    \A c \in Callers :
        /\ Cardinality({m \in DOMAIN locks : locks[m] = c}) <= 1
        /\ xpc[c] = "idle" => \A m \in DOMAIN locks : locks[m] # c

\* C28: the methods of the executor take the locks in one order (id counter,
\* task registry, ready queue), so concurrent calls never deadlock: under fair
\* scheduling every call returns.
C28_NoDeadlock ==
    /\ [][\A c \in Callers : \A m \in DOMAIN locks :
             locks'[m] = c /\ locks[m] # c =>
                 /\ m = "next_task_id" => locks.tasks # c /\ locks.ready_queue # c
                 /\ m = "tasks" => locks.ready_queue # c]_vars
    /\ \A c \in Callers : (xpc[c] # "idle") ~> (xpc[c] = "idle")
\* a spawn holds the id counter and the registry and waits for the ready
\* queue, which a concurrent get_next_ready_task holds
C28_Witness ==
    \E c, d \in Callers :
        /\ c # d
        /\ xlocal[c].op = "spawn" /\ xpc[c] = "lock_queue"
        /\ locks.next_task_id = c /\ locks.tasks = c
        /\ locks.ready_queue = d /\ xlocal[d].op = "get_next_ready_task"

\* C27: the body of a task is executed at most once: counting the executions
\* of its body that are under way and the terminal states that ended
\* executions have written, no task ever has more than one.
C27_AtMostOnce ==
    \A i \in 1..Len(tasks) :
        LET t == tasks[i].id
            under_way == {a \in Activations(t) : evals[a[1]].stack[a[2]].pc # "exit"}
        IN Cardinality(under_way) + writes[t] <= 1

\* C29: `await t` and `await {t}` on a pending task are the same for the
\* awaiting evaluator. The task of `await {t}` works on a copy of the store, so
\* the variables of the parent are after the await what they were before it;
\* hence no statement of a body that `await t` runs changes a scope of the
\* awaiting evaluator, and the await returns what the task stored.
C29_AwaitByIdLikeJoin ==
    [][\A e \in Evals :
          /\ /\ Live(e) /\ Depth(e) > 1
             /\ evals'[e].status = "running" /\ Len(evals'[e].stack) = Depth(e)
             => \A j \in 1..(Len(Env(e)) - 1) : stores'[evals[e].env][j] = Env(e)[j]
          /\ InlineReturnStep(e) /\ Top(e).out.kind = "ok"
             => StateOf(Top(e).task) = Completed(Top(e).out.val)]_vars

\* C30: a task spawned with a number of arguments other than the number of
\* parameters of its function fails when it is awaited, as a direct call does:
\* its body is never entered, so no statement runs with a parameter unbound,
\* and the task is never Completed.
C30_SpawnArity ==
    \A i \in 1..Len(tasks) :
        Len(tasks[i].arguments) # Len(Params(tasks[i].function)) =>
            /\ Activations(tasks[i].id) = {}
            /\ tasks[i].state.tag \in {"Pending", "Failed"}
            /\ rets[tasks[i].id] = {}

====
